---- MODULE Spec2Model ----
(***************************************************************************)
(* carry-engine: the reconciler (engine/src/reconcile.rs), the operation   *)
(* and clock orders (operation.rs, clock.rs), records (record.rs) and the  *)
(* store (store.rs), as state machines.                                    *)
(*                                                                         *)
(*   SpecRec : one Reconciler: new, load_records*, reconcile               *)
(*   Spec    : one Store: tick, apply, acknowledge, clear_pending,         *)
(*             reconcile                                                   *)
(***************************************************************************)
EXTENDS Integers, Sequences, FiniteSets, TLC

VARIABLES
    rc_phase,      \* "new" until Reconciler::reconcile has consumed the reconciler
    rc_strategy,   \* Reconciler.strategy
    rc_records,    \* Reconciler.records as loaded: (collection, id) -> RecordState
    rc_local,      \* local_ops handed to Reconciler::reconcile
    rc_remote,     \* remote_ops handed to Reconciler::reconcile
    rc_result,     \* the ReconcileResult returned
    rc_final,      \* the final record map returned
    store,         \* the Store: [clock, collections: name -> (id -> Record),
                   \* pending_ops]
    ret,           \* the last call on the Store: its name, arguments and return value
    srv,           \* the sync server: [operations, records: the two tables;
                   \* tasks: the handle_push calls in progress; resp: the last
                   \* response]
    mgr,           \* the ConnectionManager: [connections, by_node_id] and the
                   \* channel of every connection
    client,        \* a client that pulls page after page: [token: the
                   \* syncToken of its previous response, received: the
                   \* op_ids it was sent]
    calls          \* the register and unregister calls whose steps are
                   \* followed one by one: conn_id -> [node_id, pc], pc the
                   \* step the connection's call stands at, "open" between
                   \* register and unregister, "closed" after unregister

rvars == <<rc_phase, rc_strategy, rc_records, rc_local, rc_remote, rc_result, rc_final>>

svars == <<store, ret>>

srvvars == <<srv, mgr, client, calls>>

vars == <<rvars, svars, srvvars>>

----------------------------------------------------------------------------
(* Bounds of the model.                                                    *)

\* at most this many ops (local plus remote) in one Reconciler::reconcile call
MaxOps == 3
\* at most this many records loaded into a Reconciler before reconcile
MaxLoaded == 1
\* at most this many ops in the pending queue of the Store
MaxPending == 2
\* at most this many remote ops in one Store::reconcile call
MaxRemote == 1
\* no record version above this
MaxVersion == 3
\* Store::tick is not called on a counter of this value or more, unless the
\* counter is MaxCounter
MaxTick == 2
\* the width of a clock counter in the model: counters are 0..MaxCounter, as
\* u64 counters are 0..u64::MAX
MaxCounter == 12
\* at most this many operations in one push request
MaxPushOps == 1
\* at most this many handle_push calls in progress at once
MaxTasks == 2
\* at most this many push requests in a run of the server
MaxPushes == 3
\* at most this many pushes over WebSocket in progress at once
MaxWsTasks == 1
\* at most this many pushes over WebSocket in a run of the server
MaxWsPushes == 2

----------------------------------------------------------------------------
(* Strings: Rust compares String byte-lexicographically. StrOrder lists    *)
(* every node id, op id, record id and collection name of the model in that *)
(* order ('A'..'Z' < '_' < 'a'..'z', and "u1" < "u2" < "users").           *)

StrOrder ==
    << "A", "B", "C", "D", "E", "F", "G", "H",
       "__existing__u1", "__existing__u2", "ghosts", "local", "remote",
       "u1", "u2", "users" >>

StrRank(s) == CHOOSE i \in 1..Len(StrOrder) : StrOrder[i] = s

IntCmp(a, b) == IF a < b THEN -1 ELSE IF a = b THEN 0 ELSE 1

StrCmp(a, b) == IntCmp(StrRank(a), StrRank(b))

----------------------------------------------------------------------------
(* clock.rs                                                                *)

LogicalClock_with_counter(node_id, counter) ==
    [node_id |-> node_id, counter |-> counter]

LogicalClock_new(node_id) == [node_id |-> node_id, counter |-> 0]

\* self.counter += 1 at u64::MAX overflows: a build with overflow checks
\* panics, a build without them wraps to 0
TickOverflows(c) == c.counter = MaxCounter

\* the clock after tick where tick returns
LogicalClock_tick(c) == [c EXCEPT !.counter = (@ + 1) % (MaxCounter + 1)]

\* a merge that takes the other counter as it is
LogicalClock_merge_assign(c, other) == [c EXCEPT !.counter = other.counter]

LogicalClock_merge(c, other) ==
    [c EXCEPT !.counter = IF @ >= other.counter THEN @ ELSE other.counter]

\* impl Ord for LogicalClock: counter, then node_id
LogicalClock_cmp(a, b) ==
    IF a.counter # b.counter
        THEN IntCmp(a.counter, b.counter)
        ELSE StrCmp(a.node_id, b.node_id)

----------------------------------------------------------------------------
(* operation.rs. One record shape for the three variants: a Create has no  *)
(* base_version (0 here), a Delete no payload (NoPayload here).            *)

NoPayload == [none |-> TRUE]

CreateOp_new(op_id, id, collection, payload, timestamp, clock) ==
    [type |-> "create", op_id |-> op_id, id |-> id, collection |-> collection,
     payload |-> payload, base_version |-> 0, timestamp |-> timestamp,
     clock |-> clock]

UpdateOp_new(op_id, id, collection, payload, base_version, timestamp, clock) ==
    [type |-> "update", op_id |-> op_id, id |-> id, collection |-> collection,
     payload |-> payload, base_version |-> base_version,
     timestamp |-> timestamp, clock |-> clock]

DeleteOp_new(op_id, id, collection, base_version, timestamp, clock) ==
    [type |-> "delete", op_id |-> op_id, id |-> id, collection |-> collection,
     payload |-> NoPayload, base_version |-> base_version,
     timestamp |-> timestamp, clock |-> clock]

\* a comparison that stops at the clock: ops of equal clock compare equal
Operation_cmp_clock_only(a, b) == LogicalClock_cmp(a.clock, b.clock)

\* impl Ord for Operation: clock, then timestamp, then op_id
Operation_cmp(a, b) ==
    IF LogicalClock_cmp(a.clock, b.clock) # 0
        THEN LogicalClock_cmp(a.clock, b.clock)
        ELSE IF a.timestamp # b.timestamp
            THEN IntCmp(a.timestamp, b.timestamp)
            ELSE StrCmp(a.op_id, b.op_id)

----------------------------------------------------------------------------
(* record.rs                                                               *)

Metadata_new_local(timestamp, clock) ==
    [created_at |-> timestamp, updated_at |-> timestamp, origin |-> "Local",
     clock |-> clock]

Metadata_update(metadata, timestamp, clock, origin) ==
    [metadata EXCEPT !.updated_at = timestamp, !.clock = clock, !.origin = origin]

Record_new(id, collection, payload, timestamp, clock) ==
    [id |-> id, collection |-> collection, version |-> 1, payload |-> payload,
     metadata |-> Metadata_new_local(timestamp, clock), deleted |-> FALSE]

mark_deleted(record, timestamp, clock, origin) ==
    [record EXCEPT !.deleted = TRUE, !.version = @ + 1,
                   !.metadata = Metadata_update(@, timestamp, clock, origin)]

\* an update that leaves the version as it was
update_payload_keep_version(record, payload, timestamp, clock, origin) ==
    [record EXCEPT !.payload = payload,
                   !.metadata = Metadata_update(@, timestamp, clock, origin)]

update_payload(record, payload, timestamp, clock, origin) ==
    [record EXCEPT !.payload = payload, !.version = @ + 1,
                   !.metadata = Metadata_update(@, timestamp, clock, origin)]

----------------------------------------------------------------------------
(* serde_json::Value, as far as payloads go                                *)

JsonNull == [kind |-> "Null"]

JsonString(s) == [kind |-> "String", value |-> s]

JsonInt(n) == [kind |-> "Int", value |-> n]

JsonObject(fields) == [kind |-> "Object", fields |-> fields]

----------------------------------------------------------------------------
(* error.rs and Result: Ok(v) or Err(e)                                    *)

Ok(v) == [ok |-> TRUE, value |-> v]

Err(e) == [ok |-> FALSE, error |-> e]

----------------------------------------------------------------------------
(* schema.rs                                                               *)

FieldDef_required(name, field_type) ==
    [name |-> name, field_type |-> field_type, required |-> TRUE]

FieldDef_optional(name, field_type) ==
    [name |-> name, field_type |-> field_type, required |-> FALSE]

validate_type(field, value) ==
    LET valid ==
            CASE field.field_type = "String" -> value.kind = "String"
              [] field.field_type = "Int" -> value.kind = "Int"
              [] field.field_type = "Float" -> value.kind \in {"Float", "Int"}
              [] field.field_type = "Bool" -> value.kind = "Bool"
              [] field.field_type = "Timestamp" -> value.kind = "Int"
              [] field.field_type = "Json" -> TRUE
    IN  IF valid THEN Ok(TRUE)
        ELSE Err([kind |-> "TypeMismatch", field |-> field.name,
                  expected |-> field.field_type, got |-> value.kind])

\* FieldDef::validate on obj.get(field.name)
FieldDef_validate(field, obj) ==
    IF field.name \notin DOMAIN obj
        THEN IF field.required
                THEN Err([kind |-> "MissingRequiredField", field |-> field.name])
                ELSE Ok(TRUE)
    ELSE IF obj[field.name].kind = "Null"
        THEN IF field.required
                THEN Err([kind |-> "MissingRequiredField", field |-> field.name])
                ELSE Ok(TRUE)
    ELSE validate_type(field, obj[field.name])

RECURSIVE ValidateFields(_, _)
ValidateFields(fields, obj) ==
    IF fields = <<>> THEN Ok(TRUE)
    ELSE IF ~FieldDef_validate(Head(fields), obj).ok
        THEN FieldDef_validate(Head(fields), obj)
        ELSE ValidateFields(Tail(fields), obj)

validate_payload(collection_schema, payload) ==
    IF payload.kind # "Object"
        THEN Err([kind |-> "InvalidPayload"])
        ELSE ValidateFields(collection_schema.fields, payload.fields)

validate_operation(schema, op) ==
    IF op.collection \notin DOMAIN schema.collections
        THEN Err([kind |-> "CollectionNotFound", name |-> op.collection])
    ELSE IF op.type \in {"create", "update"}
        THEN validate_payload(schema.collections[op.collection], op.payload)
        ELSE Ok(TRUE)

----------------------------------------------------------------------------
(* Vec and HashMap helpers                                                 *)

Elems(seq) == { seq[i] : i \in 1..Len(seq) }

Contains(seq, x) == \E i \in 1..Len(seq) : seq[i] = x

Push(seq, x) == Append(seq, x)

PushIfAbsent(seq, x) == IF Contains(seq, x) THEN seq ELSE Append(seq, x)

Retain(seq, x) == SelectSeq(seq, LAMBDA y : y # x)

EmptyMap == [k \in {} |-> 0]

MapInsert(m, k, v) == [x \in DOMAIN m \cup {k} |-> IF x = k THEN v ELSE m[x]]

----------------------------------------------------------------------------
(* reconcile.rs                                                            *)

Strategies == {"ClockWins", "TimestampWins"}

\* Option<usize>: None is <<>>, Some(n) is <<n>>
ReconcileResult_new ==
    [accepted_local |-> <<>>, rejected_local |-> <<>>, applied_remote |-> <<>>,
     rejected_remote |-> <<>>, conflicts |-> <<>>,
     debug_pending_before |-> <<>>, debug_pending_after |-> <<>>]

TrackedOp_local(op) == [operation |-> op, source |-> "Local"]

TrackedOp_remote(op) == [operation |-> op, source |-> "Remote"]

KeyOf(op) == <<op.collection, op.id>>

\* a conflict test that ignores the sources: any op on a held record conflicts
is_conflict_any_source(existing_op, new_op, existing_source, new_source) == TRUE

is_conflict(existing_op, new_op, existing_source, new_source) ==
    existing_source # new_source

\* a resolution that compares timestamps under either strategy
resolve_conflict_by_timestamp(strategy, local_op, remote_op) ==
    IF local_op.timestamp >= remote_op.timestamp
        THEN [winner |-> local_op, resolution |-> "LocalWins"]
        ELSE [winner |-> remote_op, resolution |-> "RemoteWins"]

resolve_conflict(strategy, local_op, remote_op) ==
    IF strategy = "ClockWins"
        THEN IF Operation_cmp(local_op, remote_op) >= 0
                THEN [winner |-> local_op, resolution |-> "LocalWins"]
                ELSE [winner |-> remote_op, resolution |-> "RemoteWins"]
        ELSE IF local_op.timestamp >= remote_op.timestamp
                THEN [winner |-> local_op, resolution |-> "LocalWins"]
                ELSE [winner |-> remote_op, resolution |-> "RemoteWins"]

\* an apply that lets an update or delete of an absent key create the record
force_apply_op_upsert(records, tracked) ==
    LET op == tracked.operation
        source == tracked.source
        key == KeyOf(op)
        origin == IF source = "Local" THEN "Local" ELSE "Remote"
        fresh == Record_new(op.id, op.collection, op.payload, op.timestamp, op.clock)
        held == IF key \in DOMAIN records THEN records[key].record ELSE fresh
        after == CASE op.type = "create" -> fresh
                   [] op.type = "update" ->
                        update_payload(held, op.payload, op.timestamp, op.clock, origin)
                   [] op.type = "delete" ->
                        mark_deleted(held, op.timestamp, op.clock, origin)
    IN  MapInsert(records, key,
                  [record |-> after, last_op |-> op, last_source |-> source])

\* st.records after the op is applied unconditionally
force_apply_op(records, tracked) ==
    LET op == tracked.operation
        source == tracked.source
        key == KeyOf(op)
        origin == IF source = "Local" THEN "Local" ELSE "Remote"
    IN  CASE op.type = "create" ->
                MapInsert(records, key,
                    [record |-> Record_new(op.id, op.collection, op.payload,
                                           op.timestamp, op.clock),
                     last_op |-> op, last_source |-> source])
          [] op.type = "update" ->
                IF key \in DOMAIN records
                    THEN [records EXCEPT ![key] =
                            [record |-> update_payload(@.record, op.payload,
                                            op.timestamp, op.clock, origin),
                             last_op |-> op, last_source |-> source]]
                    ELSE records
          [] op.type = "delete" ->
                IF key \in DOMAIN records
                    THEN [records EXCEPT ![key] =
                            [record |-> mark_deleted(@.record, op.timestamp,
                                            op.clock, origin),
                             last_op |-> op, last_source |-> source]]
                    ELSE records

apply_op_to_state(st, tracked) ==
    LET op_id == tracked.operation.op_id
        result ==
            IF tracked.source = "Local"
                THEN [st.result EXCEPT !.accepted_local = PushIfAbsent(@, op_id)]
                ELSE [st.result EXCEPT !.applied_remote = PushIfAbsent(@, op_id)]
    IN  [records |-> force_apply_op(st.records, tracked), result |-> result]

handle_conflict(st, strategy, incoming, existing) ==
    LET local_source == incoming.source = "Local"
        local_op == IF local_source THEN incoming.operation ELSE existing.last_op
        remote_op == IF local_source THEN existing.last_op ELSE incoming.operation
        resolved == resolve_conflict(strategy, local_op, remote_op)
        winner == resolved.winner
        resolution == resolved.resolution
        winner_op_id == winner.op_id
        winner_is_local == winner.op_id = local_op.op_id
        r0 == [st.result EXCEPT !.conflicts = Push(@,
                    [local_op |-> local_op, remote_op |-> remote_op,
                     resolution |-> resolution, winner_op_id |-> winner_op_id])]
        r1 == IF resolution = "LocalWins"
                THEN [r0 EXCEPT
                        !.rejected_remote = Push(@, remote_op.op_id),
                        !.accepted_local = PushIfAbsent(@, local_op.op_id)]
                ELSE [r0 EXCEPT
                        !.rejected_local = Push(@, local_op.op_id),
                        !.accepted_local = Retain(@, local_op.op_id),
                        !.applied_remote = PushIfAbsent(@, remote_op.op_id)]
    IN  IF (winner_is_local /\ local_source) \/ (~winner_is_local /\ ~local_source)
            THEN [records |-> force_apply_op(st.records,
                        [operation |-> winner, source |-> incoming.source]),
                  result |-> r1]
            ELSE [records |-> st.records, result |-> r1]

apply_tracked_op(st, strategy, tracked) ==
    LET op == tracked.operation
        key == KeyOf(op)
    IN  IF /\ key \in DOMAIN st.records
           /\ is_conflict(st.records[key].last_op, op,
                          st.records[key].last_source, tracked.source)
            THEN handle_conflict(st, strategy, tracked, st.records[key])
            ELSE apply_op_to_state(st, tracked)

\* the comparator handed to sort_by in Reconciler::reconcile
TrackedOp_cmp(a, b) == Operation_cmp(a.operation, b.operation)

\* slice::sort_by is a stable sort: an element goes behind every element that
\* does not compare greater than it
RECURSIVE InsertSorted(_, _)
InsertSorted(sorted, t) ==
    IF sorted = <<>> THEN <<t>>
    ELSE IF TrackedOp_cmp(sorted[Len(sorted)], t) <= 0
        THEN Append(sorted, t)
        ELSE Append(InsertSorted(SubSeq(sorted, 1, Len(sorted) - 1), t),
                    sorted[Len(sorted)])

RECURSIVE sort_by(_)
sort_by(ops) ==
    IF ops = <<>> THEN <<>>
    ELSE InsertSorted(sort_by(SubSeq(ops, 1, Len(ops) - 1)), ops[Len(ops)])

RECURSIVE ApplyAll(_, _, _)
ApplyAll(st, strategy, ops) ==
    IF ops = <<>> THEN st
    ELSE ApplyAll(apply_tracked_op(st, strategy, Head(ops)), strategy, Tail(ops))

\* Reconciler::reconcile on a reconciler holding `records` and a fresh result
Reconciler_reconcile(records, strategy, local_ops, remote_ops) ==
    LET all_ops == [i \in 1..Len(local_ops) |-> TrackedOp_local(local_ops[i])]
                   \o [i \in 1..Len(remote_ops) |-> TrackedOp_remote(remote_ops[i])]
        st == ApplyAll([records |-> records, result |-> ReconcileResult_new],
                       strategy, sort_by(all_ops))
    IN  [result |-> st.result,
         final_records |-> [k \in DOMAIN st.records |-> st.records[k].record]]

\* Reconciler::load_records for one (record, last_op, source)
load_records(records, record, last_op, source) ==
    MapInsert(records, <<record.collection, record.id>>,
              [record |-> record, last_op |-> last_op, last_source |-> source])

----------------------------------------------------------------------------
(* store.rs. A store value is [clock, collections, pending_ops]; its schema *)
(* and node_id never change.                                               *)

Users == "users"

\* test_schema of store.rs
schema ==
    [version |-> 1,
     collections |->
        (Users :> [name |-> Users,
                   fields |-> << FieldDef_required("name", "String"),
                                 FieldDef_optional("age", "Int") >>])]

StoreNodeId == "local"

Store_new ==
    [clock |-> LogicalClock_new(StoreNodeId),
     collections |-> [name \in DOMAIN schema.collections |-> EmptyMap],
     pending_ops |-> <<>>]

Store_tick(s) == [s EXCEPT !.clock = LogicalClock_tick(@)]

ApplyResult(op, version) ==
    [op_id |-> op.op_id, record_id |-> op.id, version |-> version]

\* a create that takes the place of a tombstone
apply_create_over_tombstone(colls, op, timestamp) ==
    IF op.collection \notin DOMAIN colls
        THEN Err([kind |-> "CollectionNotFound", name |-> op.collection])
    ELSE IF /\ op.id \in DOMAIN colls[op.collection]
            /\ ~colls[op.collection][op.id].deleted
        THEN Err([kind |-> "RecordAlreadyExists", id |-> op.id])
    ELSE LET record == Record_new(op.id, op.collection, op.payload, timestamp,
                                  op.clock)
         IN  Ok([collections |->
                    [colls EXCEPT ![op.collection] = MapInsert(@, record.id, record)],
                 result |-> ApplyResult(op, record.version)])

\* Ok([collections, result]) or Err
apply_create(colls, op, timestamp) ==
    IF op.collection \notin DOMAIN colls
        THEN Err([kind |-> "CollectionNotFound", name |-> op.collection])
    ELSE IF op.id \in DOMAIN colls[op.collection]
        THEN Err([kind |-> "RecordAlreadyExists", id |-> op.id])
    ELSE LET record == Record_new(op.id, op.collection, op.payload, timestamp,
                                  op.clock)
         IN  Ok([collections |->
                    [colls EXCEPT ![op.collection] = MapInsert(@, record.id, record)],
                 result |-> ApplyResult(op, record.version)])

apply_update(colls, op, timestamp) ==
    IF op.collection \notin DOMAIN colls
        THEN Err([kind |-> "CollectionNotFound", name |-> op.collection])
    ELSE IF op.id \notin DOMAIN colls[op.collection]
        THEN Err([kind |-> "RecordNotFound", id |-> op.id])
    ELSE IF colls[op.collection][op.id].deleted
        THEN Err([kind |-> "OperationOnDeleted", id |-> op.id])
    ELSE IF colls[op.collection][op.id].version # op.base_version
        THEN Err([kind |-> "VersionMismatch", expected |-> op.base_version,
                  actual |-> colls[op.collection][op.id].version])
    ELSE LET record == update_payload(colls[op.collection][op.id], op.payload,
                                      timestamp, op.clock, "Local")
         IN  Ok([collections |-> [colls EXCEPT ![op.collection][op.id] = record],
                 result |-> ApplyResult(op, record.version)])

apply_delete(colls, op, timestamp) ==
    IF op.collection \notin DOMAIN colls
        THEN Err([kind |-> "CollectionNotFound", name |-> op.collection])
    ELSE IF op.id \notin DOMAIN colls[op.collection]
        THEN Err([kind |-> "RecordNotFound", id |-> op.id])
    ELSE IF colls[op.collection][op.id].deleted
        THEN Err([kind |-> "OperationOnDeleted", id |-> op.id])
    ELSE IF colls[op.collection][op.id].version # op.base_version
        THEN Err([kind |-> "VersionMismatch", expected |-> op.base_version,
                  actual |-> colls[op.collection][op.id].version])
    ELSE LET record == mark_deleted(colls[op.collection][op.id], timestamp,
                                    op.clock, "Local")
         IN  Ok([collections |-> [colls EXCEPT ![op.collection][op.id] = record],
                 result |-> ApplyResult(op, record.version)])

\* an apply that queues the op although applying it failed
Store_apply_track_failed(s, op, timestamp) ==
    LET valid == validate_operation(schema, op)
        merged == LogicalClock_merge(s.clock, op.clock)
        applied ==
            CASE op.type = "create" -> apply_create(s.collections, op, timestamp)
              [] op.type = "update" -> apply_update(s.collections, op, timestamp)
              [] op.type = "delete" -> apply_delete(s.collections, op, timestamp)
        queued == Push(s.pending_ops, [operation |-> op, applied_at |-> timestamp])
    IN  IF ~valid.ok THEN [store |-> s, result |-> valid]
        ELSE IF ~applied.ok
            THEN [store |-> [s EXCEPT !.clock = merged, !.pending_ops = queued],
                  result |-> applied]
        ELSE [store |-> [clock |-> merged,
                         collections |-> applied.value.collections,
                         pending_ops |-> queued],
              result |-> Ok(applied.value.result)]

\* Store::apply: [store, result]. The clock is merged before the op is applied.
Store_apply(s, op, timestamp) ==
    LET valid == validate_operation(schema, op)
        merged == LogicalClock_merge(s.clock, op.clock)
        applied ==
            CASE op.type = "create" -> apply_create(s.collections, op, timestamp)
              [] op.type = "update" -> apply_update(s.collections, op, timestamp)
              [] op.type = "delete" -> apply_delete(s.collections, op, timestamp)
    IN  IF ~valid.ok THEN [store |-> s, result |-> valid]
        ELSE IF ~applied.ok
            THEN [store |-> [s EXCEPT !.clock = merged], result |-> applied]
        ELSE [store |->
                [clock |-> merged,
                 collections |-> applied.value.collections,
                 pending_ops |-> Push(s.pending_ops,
                                      [operation |-> op, applied_at |-> timestamp])],
              result |-> Ok(applied.value.result)]

RetainNotIn(pending, op_ids) ==
    SelectSeq(pending, LAMBDA p : p.operation.op_id \notin op_ids)

\* an acknowledge that empties the queue
Store_acknowledge_all(s, op_ids) == [s EXCEPT !.pending_ops = <<>>]

Store_acknowledge(s, op_ids) ==
    [s EXCEPT !.pending_ops = RetainNotIn(@, op_ids)]

Store_clear_pending(s) == [s EXCEPT !.pending_ops = <<>>]

ExistingOpId(id) == "__existing__" \o id

\* the synthetic Create that Store::reconcile derives from a record
SyntheticOp(collection_name, record) ==
    CreateOp_new(ExistingOpId(record.id), record.id, collection_name,
                 record.payload, record.metadata.created_at,
                 record.metadata.clock)

\* every (collection name, record id) the store holds a record under
StoreEntries(colls) ==
    UNION { { <<c, id>> : id \in DOMAIN colls[c] } : c \in DOMAIN colls }

\* the records Store::reconcile loads into the reconciler, keyed as
\* load_records keys them, by the record's own collection and id
LoadedRecords(colls) ==
    LET entries == StoreEntries(colls)
        RecordAt(e) == colls[e[1]][e[2]]
        KeyAt(e) == <<RecordAt(e).collection, RecordAt(e).id>>
    IN  [k \in { KeyAt(e) : e \in entries } |->
            LET e == CHOOSE e \in entries : KeyAt(e) = k
            IN  [record |-> RecordAt(e),
                 last_op |-> SyntheticOp(e[1], RecordAt(e)),
                 last_source |-> IF RecordAt(e).metadata.origin = "Local"
                                    THEN "Local" ELSE "Remote"]]

\* the loop over final_records: a record goes into the collection its key
\* names, under its own id, if the store has that collection
WriteBack(colls, final_records) ==
    [c \in DOMAIN colls |->
        LET incoming == { k \in DOMAIN final_records : k[1] = c }
            ids == { final_records[k].id : k \in incoming }
        IN  [id \in DOMAIN colls[c] \cup ids |->
                IF id \in ids
                    THEN final_records[CHOOSE k \in incoming :
                                            final_records[k].id = id]
                    ELSE colls[c][id]]]

PendingOperations(pending) == [i \in 1..Len(pending) |-> pending[i].operation]

\* a reconcile that also prunes the local ops it accepted
Store_reconcile_prune_accepted(s, remote_ops, strategy) ==
    LET out == Reconciler_reconcile(LoadedRecords(s.collections), strategy,
                                    PendingOperations(s.pending_ops), remote_ops)
        kept == RetainNotIn(s.pending_ops,
                            Elems(out.result.rejected_local)
                                \cup Elems(out.result.accepted_local))
    IN  [store |-> [clock |-> s.clock,
                    collections |-> WriteBack(s.collections, out.final_records),
                    pending_ops |-> kept],
         result |-> [out.result EXCEPT
                        !.debug_pending_before = <<Len(s.pending_ops)>>,
                        !.debug_pending_after = <<Len(kept)>>],
         final_records |-> out.final_records]

\* Store::reconcile: [store, result, final_records]
Store_reconcile(s, remote_ops, strategy) ==
    LET out == Reconciler_reconcile(LoadedRecords(s.collections), strategy,
                                    PendingOperations(s.pending_ops), remote_ops)
        kept == RetainNotIn(s.pending_ops, Elems(out.result.rejected_local))
    IN  [store |-> [clock |-> s.clock,
                    collections |-> WriteBack(s.collections, out.final_records),
                    pending_ops |-> kept],
         result |-> [out.result EXCEPT
                        !.debug_pending_before = <<Len(s.pending_ops)>>,
                        !.debug_pending_after = <<Len(kept)>>],
         final_records |-> out.final_records]

----------------------------------------------------------------------------
(* snapshot.rs, and Store::export_state / Store::import_state of store.rs. *)
(* A BTreeMap is the sequence of its <<key, value>> entries in key order,  *)
(* which is the order it is iterated and serialized in.                    *)

SNAPSHOT_FORMAT_VERSION == 1

BTreeMap_new == <<>>

BTreeMap_keys(m) == { m[i][1] : i \in 1..Len(m) }

BTreeMap_get(m, k) == m[CHOOSE i \in 1..Len(m) : m[i][1] = k][2]

BTreeMap_values(m) == [i \in 1..Len(m) |-> m[i][2]]

\* an insert that puts a new key at the end, whatever its rank
BTreeMap_insert_at_end(m, k, v) ==
    IF k \in BTreeMap_keys(m)
        THEN [i \in 1..Len(m) |-> IF m[i][1] = k THEN <<k, v>> ELSE m[i]]
        ELSE Append(m, <<k, v>>)

BTreeMap_insert(m, k, v) ==
    IF k \in BTreeMap_keys(m)
        THEN [i \in 1..Len(m) |-> IF m[i][1] = k THEN <<k, v>> ELSE m[i]]
        ELSE SelectSeq(m, LAMBDA e : StrRank(e[1]) < StrRank(k))
                \o << <<k, v>> >>
                \o SelectSeq(m, LAMBDA e : StrRank(e[1]) > StrRank(k))

StoreSnapshot_new(schema_version, node_id) ==
    [format_version |-> SNAPSHOT_FORMAT_VERSION,
     schema_version |-> schema_version,
     node_id |-> node_id,
     clock |-> LogicalClock_new(node_id),
     collections |-> BTreeMap_new,
     pending_ops |-> <<>>]

\* entry(record.collection).or_default().insert(record.id, record)
add_record(snapshot, record) ==
    LET inner == IF record.collection \in BTreeMap_keys(snapshot.collections)
                    THEN BTreeMap_get(snapshot.collections, record.collection)
                    ELSE BTreeMap_new
    IN  [snapshot EXCEPT !.collections =
            BTreeMap_insert(@, record.collection,
                            BTreeMap_insert(inner, record.id, record))]

add_pending(snapshot, pending) ==
    [snapshot EXCEPT !.pending_ops = Push(@, pending)]

\* the orders in which the loops of export_state may visit the records of
\* the store's HashMaps: collection by collection, in any order
IterationOrders(colls) ==
    LET entries == StoreEntries(colls)
        n == Cardinality(entries)
    IN  { order \in [1..n -> entries] :
            /\ \A i, j \in 1..n : i # j => order[i] # order[j]
            /\ \A i, j, k \in 1..n :
                  (i < j /\ j < k /\ order[i][1] = order[k][1])
                      => order[j][1] = order[i][1] }

RECURSIVE AddRecords(_, _, _)
AddRecords(snapshot, colls, order) ==
    IF order = <<>> THEN snapshot
    ELSE AddRecords(add_record(snapshot, colls[Head(order)[1]][Head(order)[2]]),
                    colls, Tail(order))

RECURSIVE AddPendings(_, _)
AddPendings(snapshot, pending) ==
    IF pending = <<>> THEN snapshot
    ELSE AddPendings(add_pending(snapshot, Head(pending)), Tail(pending))

\* Store::export_state, with the records visited in the given order
Store_export_state(s, order) ==
    LET snapshot == [StoreSnapshot_new(schema.version, StoreNodeId)
                        EXCEPT !.clock = s.clock]
    IN  AddPendings(AddRecords(snapshot, s.collections, order), s.pending_ops)

\* the records of a snapshot, each with the name of the collection it is
\* under, in the order validate visits them
RECURSIVE SnapshotRecords(_)
SnapshotRecords(collections) ==
    IF collections = <<>> THEN <<>>
    ELSE [j \in 1..Len(Head(collections)[2]) |->
             [name |-> Head(collections)[1],
              record |-> Head(collections)[2][j][2]]]
         \o SnapshotRecords(Tail(collections))

\* StoreSnapshot::validate
StoreSnapshot_validate(snapshot, sch) ==
    LET unknown == SelectSeq(snapshot.collections,
                             LAMBDA e : e[1] \notin DOMAIN sch.collections)
        known == SelectSeq(snapshot.collections,
                           LAMBDA e : e[1] \in DOMAIN sch.collections)
        failing ==
            SelectSeq(SnapshotRecords(known),
                      LAMBDA r : /\ ~r.record.deleted
                                 /\ ~validate_payload(sch.collections[r.name],
                                                      r.record.payload).ok)
    IN  IF snapshot.schema_version # sch.version
            THEN Err([kind |-> "SchemaVersionMismatch", expected |-> sch.version,
                      actual |-> snapshot.schema_version])
        ELSE IF unknown # <<>>
            THEN Err([kind |-> "CollectionNotFound", name |-> Head(unknown)[1]])
        ELSE IF failing # <<>>
            THEN validate_payload(sch.collections[Head(failing).name],
                                  Head(failing).record.payload)
        ELSE Ok(TRUE)

\* the loop of import_state over snapshot.collections: a record goes into the
\* store's collection of that name, if there is one, under its own id
RECURSIVE ImportRecords(_, _, _)
ImportRecords(colls, name, records) ==
    IF records = <<>> THEN colls
    ELSE ImportRecords([colls EXCEPT ![name] = MapInsert(@, Head(records).id,
                                                         Head(records))],
                       name, Tail(records))

RECURSIVE ImportCollections(_, _)
ImportCollections(colls, collections) ==
    IF collections = <<>> THEN colls
    ELSE ImportCollections(
            IF Head(collections)[1] \in DOMAIN colls
                THEN ImportRecords(colls, Head(collections)[1],
                                   BTreeMap_values(Head(collections)[2]))
                ELSE colls,
            Tail(collections))

\* an import that takes the snapshot's clock before it checks the node id
Store_import_state_clock_first(s, snapshot) ==
    LET valid == StoreSnapshot_validate(snapshot, schema)
        cleared == [c \in DOMAIN s.collections |-> EmptyMap]
    IN  IF ~valid.ok THEN [store |-> s, result |-> valid]
        ELSE IF snapshot.node_id # StoreNodeId
            THEN [store |-> [s EXCEPT !.clock = snapshot.clock],
                  result |-> Err([kind |-> "InvalidSnapshot",
                                  expected |-> StoreNodeId,
                                  got |-> snapshot.node_id])]
        ELSE [store |-> [clock |-> snapshot.clock,
                         collections |-> ImportCollections(cleared,
                                                           snapshot.collections),
                         pending_ops |-> snapshot.pending_ops],
              result |-> Ok(TRUE)]

\* Store::import_state: [store, result]
Store_import_state(s, snapshot) ==
    LET valid == StoreSnapshot_validate(snapshot, schema)
        cleared == [c \in DOMAIN s.collections |-> EmptyMap]
    IN  IF ~valid.ok THEN [store |-> s, result |-> valid]
        ELSE IF snapshot.node_id # StoreNodeId
            THEN [store |-> s,
                  result |-> Err([kind |-> "InvalidSnapshot",
                                  expected |-> StoreNodeId,
                                  got |-> snapshot.node_id])]
        ELSE [store |-> [clock |-> snapshot.clock,
                         collections |-> ImportCollections(cleared,
                                                           snapshot.collections),
                         pending_ops |-> snapshot.pending_ops],
              result |-> Ok(TRUE)]

\* serde_json::to_string of a snapshot: the fields in declaration order under
\* their camelCase names, each map in key order
StoreSnapshot_to_json(snapshot) ==
    << <<"formatVersion", snapshot.format_version>>,
       <<"schemaVersion", snapshot.schema_version>>,
       <<"nodeId", snapshot.node_id>>,
       <<"clock", snapshot.clock>>,
       <<"collections", snapshot.collections>>,
       <<"pendingOps", snapshot.pending_ops>> >>

----------------------------------------------------------------------------
(* The inputs the model draws from.                                        *)

NameOf(op_id) ==
    CASE op_id = "A" -> "Alice" [] op_id = "B" -> "Bob"
      [] op_id = "C" -> "Carol" [] op_id = "D" -> "Dave"
      [] OTHER -> "Eve"

PayloadOf(op_id) == JsonObject([name |-> JsonString(NameOf(op_id))])

\* a payload the schema of users rejects: the required field is null
NullNamePayload == JsonObject([name |-> JsonNull])

\* what an op of a reconcile call may be: kind, record, clock counter, timestamp
Shapes ==
    { [type |-> "create", id |-> "u1", counter |-> 3, timestamp |-> 1000],
      [type |-> "create", id |-> "u1", counter |-> 5, timestamp |-> 1000],
      [type |-> "create", id |-> "u1", counter |-> 3, timestamp |-> 2000],
      [type |-> "update", id |-> "u1", counter |-> 3, timestamp |-> 1000],
      [type |-> "update", id |-> "u1", counter |-> 5, timestamp |-> 1000],
      [type |-> "delete", id |-> "u1", counter |-> 3, timestamp |-> 1000],
      [type |-> "delete", id |-> "u1", counter |-> 5, timestamp |-> 1000],
      [type |-> "create", id |-> "u2", counter |-> 3, timestamp |-> 1000] }

OpOf(shape, op_id, node_id) ==
    LET clock == LogicalClock_with_counter(node_id, shape.counter)
    IN  CASE shape.type = "create" ->
                CreateOp_new(op_id, shape.id, Users, PayloadOf(op_id),
                             shape.timestamp, clock)
          [] shape.type = "update" ->
                UpdateOp_new(op_id, shape.id, Users, PayloadOf(op_id), 1,
                             shape.timestamp, clock)
          [] shape.type = "delete" ->
                DeleteOp_new(op_id, shape.id, Users, 1, shape.timestamp, clock)

\* the i-th local op of a call has op_id LocalOpIds[i], the i-th remote op
\* RemoteOpIds[i]: the op_ids of one call are pairwise distinct
LocalOpIds == << "A", "C", "E", "G" >>

RemoteOpIds == << "B", "D", "F", "H" >>

OpList(shapes, op_ids, node_id) ==
    [i \in 1..Len(shapes) |-> OpOf(shapes[i], op_ids[i], node_id)]

\* a record a reconciler is seeded with: version 2, last written at clock 4
SeedRecord(source, deleted) ==
    LET node_id == IF source = "Local" THEN "local" ELSE "remote"
    IN  [id |-> "u1", collection |-> Users, version |-> 2,
         payload |-> JsonObject([name |-> JsonString("Zed")]),
         metadata |-> [created_at |-> 1000, updated_at |-> 1000,
                       origin |-> source,
                       clock |-> LogicalClock_with_counter(node_id, 4)],
         deleted |-> deleted]

----------------------------------------------------------------------------
(* Spec: one Store. Every call is one action; ret is the call that was     *)
(* made, with its arguments and its return value.                         *)

\* the ops apply is called with: creates carry op_id "A", updates and deletes
\* op_id "C"; on records u1 and u2 of users, one on a collection the schema
\* does not have, one with a payload the schema rejects; the create of u2
\* carries the largest clock counter there is
ApplyOps ==
    LET early == LogicalClock_with_counter(StoreNodeId, 1)
        late == LogicalClock_with_counter(StoreNodeId, 10)
        last == LogicalClock_with_counter(StoreNodeId, MaxCounter)
    IN  { CreateOp_new("A", "u1", Users, PayloadOf("A"), 1000, early),
          CreateOp_new("A", "u2", Users, PayloadOf("A"), 1000, last),
          CreateOp_new("A", "u1", "ghosts", PayloadOf("A"), 1000, early),
          CreateOp_new("A", "u2", Users, NullNamePayload, 1000, early) }
        \cup { UpdateOp_new("C", "u1", Users, PayloadOf("C"), v, 2000, late)
                : v \in 1..MaxVersion }
        \cup { DeleteOp_new("C", "u1", Users, v, 2000, late)
                : v \in 1..MaxVersion }

\* the op_id sets acknowledge is called with; no op carries op_id "E"
AckSets == { {"A"}, {"C"}, {"A", "C"}, {"A", "E"} }

\* what a remote op of a batch may be; the create of u2 carries a payload the
\* schema rejects
RemoteShapes ==
    { [type |-> "create", id |-> "u1", collection |-> Users, counter |-> 5,
       timestamp |-> 1000, valid |-> TRUE],
      [type |-> "update", id |-> "u1", collection |-> Users, counter |-> 5,
       timestamp |-> 2500, valid |-> TRUE],
      [type |-> "delete", id |-> "u1", collection |-> Users, counter |-> 5,
       timestamp |-> 2500, valid |-> TRUE],
      [type |-> "create", id |-> "u2", collection |-> Users, counter |-> 5,
       timestamp |-> 1000, valid |-> FALSE],
      [type |-> "create", id |-> "u1", collection |-> "ghosts", counter |-> 5,
       timestamp |-> 1000, valid |-> TRUE] }

RemoteOp(shape, op_id) ==
    LET remote_clock == LogicalClock_with_counter("remote", shape.counter)
        payload == IF shape.valid THEN PayloadOf(op_id) ELSE NullNamePayload
    IN  CASE shape.type = "create" ->
                CreateOp_new(op_id, shape.id, shape.collection, payload,
                             shape.timestamp, remote_clock)
          [] shape.type = "update" ->
                UpdateOp_new(op_id, shape.id, shape.collection, payload,
                             1, shape.timestamp, remote_clock)
          [] shape.type = "delete" ->
                DeleteOp_new(op_id, shape.id, shape.collection, 1,
                             shape.timestamp, remote_clock)

\* the batches reconcile is called with: the i-th op has op_id RemoteOpIds[i]
RemoteBatches ==
    UNION { { [i \in 1..n |-> RemoteOp(shapes[i], RemoteOpIds[i])]
                : shapes \in [1..n -> RemoteShapes] }
            : n \in 0..MaxRemote }

AllRecords(colls) == { colls[e[1]][e[2]] : e \in StoreEntries(colls) }

\* a snapshot a caller builds by hand: one record of users, clock at 3
BaseRecord(collection, payload) ==
    Record_new("u1", collection, payload, 1000,
               LogicalClock_with_counter(StoreNodeId, 1))

BaseSnapshot ==
    [add_record(StoreSnapshot_new(schema.version, StoreNodeId),
                BaseRecord(Users, PayloadOf("A")))
        EXCEPT !.clock = LogicalClock_with_counter(StoreNodeId, 3)]

\* the snapshots import_state is called with, besides an exported one: the
\* base snapshot, and the base snapshot with a later format version, another
\* schema version, another node id, both of these, a record whose payload the
\* schema rejects, a record of a collection the schema does not have, and a
\* record filed under users and u1 whose own fields say ghosts and u2
ImportSnapshots ==
    { BaseSnapshot,
      [BaseSnapshot EXCEPT !.format_version = SNAPSHOT_FORMAT_VERSION + 1],
      [BaseSnapshot EXCEPT !.schema_version = schema.version + 1],
      [BaseSnapshot EXCEPT !.node_id = "remote"],
      [BaseSnapshot EXCEPT !.schema_version = schema.version + 1,
                           !.node_id = "remote"],
      [BaseSnapshot EXCEPT !.collections =
          add_record(StoreSnapshot_new(schema.version, StoreNodeId),
                     BaseRecord(Users, NullNamePayload)).collections],
      [BaseSnapshot EXCEPT !.collections =
          add_record(StoreSnapshot_new(schema.version, StoreNodeId),
                     BaseRecord("ghosts", PayloadOf("A"))).collections],
      [BaseSnapshot EXCEPT !.collections =
          << <<Users, << <<"u1", [BaseRecord("ghosts", PayloadOf("A"))
                                     EXCEPT !.id = "u2"]>> >> >> >>] }

\* the caps that keep the model finite
WithinBounds(s) ==
    /\ Len(s.pending_ops) <= MaxPending
    /\ \A r \in AllRecords(s.collections) : r.version <= MaxVersion

----------------------------------------------------------------------------
(* The sync server: db/operations.rs, db/records.rs, handlers/push.rs.     *)
(* The operations table is the sequence of its rows in insertion order,     *)
(* the records table a map from (collection, record_id) to its row.         *)
(* Option<T>: None is <<>>, Some(x) is <<x>>.                               *)

\* `x as i64` and `x as u64` on a clock counter, at the model's counter width
AsI64(x) == IF 2 * x > MaxCounter THEN x - (MaxCounter + 1) ELSE x

AsU64(x) == IF x < 0 THEN x + (MaxCounter + 1) ELSE x

\* the row insert_operation binds for an op
OperationRow(op) ==
    [op_id |-> op.op_id,
     node_id |-> op.clock.node_id,
     collection |-> op.collection,
     record_id |-> op.id,
     op_type |-> op.type,
     payload |-> IF op.type = "delete" THEN <<>> ELSE <<op.payload>>,
     clock_counter |-> AsI64(op.clock.counter),
     clock_node_id |-> op.clock.node_id,
     timestamp |-> op.timestamp,
     base_version |-> IF op.type = "create" THEN <<>> ELSE <<op.base_version>>]

\* the operations table takes no second row with an op_id it already has
UniqueViolation(operations, row) ==
    \E i \in 1..Len(operations) : operations[i].op_id = row.op_id

\* db::insert_operation: Ok(the table with the new row) or the error 23505
insert_operation(operations, op) ==
    IF UniqueViolation(operations, OperationRow(op))
        THEN Err([kind |-> "Database", code |-> "23505"])
        ELSE Ok(Append(operations, OperationRow(op)))

is_unique_violation(e) == e.kind = "Database" /\ e.code = "23505"

operation_exists(operations, op_id) ==
    \E i \in 1..Len(operations) : operations[i].op_id = op_id

\* db::get_server_clock: COALESCE(MAX(clock_counter), 0) as u64
get_server_clock(operations) ==
    IF operations = <<>> THEN 0
    ELSE LET counters == { operations[i].clock_counter : i \in 1..Len(operations) }
         IN  AsU64(CHOOSE m \in counters : \A c \in counters : c <= m)

\* StoredOperation::to_operation
StoredOperation_to_operation(row) ==
    LET clock == LogicalClock_with_counter(row.clock_node_id,
                                           AsU64(row.clock_counter))
        payload == IF row.payload = <<>> THEN JsonNull ELSE row.payload[1]
        base_version == IF row.base_version = <<>> THEN 0 ELSE row.base_version[1]
    IN  CASE row.op_type = "create" ->
                Ok(CreateOp_new(row.op_id, row.record_id, row.collection, payload,
                                row.timestamp, clock))
          [] row.op_type = "update" ->
                Ok(UpdateOp_new(row.op_id, row.record_id, row.collection, payload,
                                base_version, row.timestamp, clock))
          [] row.op_type = "delete" ->
                Ok(DeleteOp_new(row.op_id, row.record_id, row.collection,
                                base_version, row.timestamp, clock))
          [] OTHER -> Err([kind |-> "UnknownOperationType", op_type |-> row.op_type])

\* the row upsert_record binds for a record
RecordRow(record) ==
    [collection |-> record.collection,
     record_id |-> record.id,
     version |-> record.version,
     payload |-> record.payload,
     deleted |-> record.deleted,
     clock_counter |-> AsI64(record.metadata.clock.counter),
     clock_node_id |-> record.metadata.clock.node_id,
     created_at |-> record.metadata.created_at,
     updated_at |-> record.metadata.updated_at]

\* db::upsert_record: ON CONFLICT keeps the created_at of the row
upsert_record(records, record) ==
    LET key == <<record.collection, record.id>>
        row == RecordRow(record)
    IN  IF key \in DOMAIN records
            THEN [records EXCEPT ![key] = [row EXCEPT !.created_at =
                                                        records[key].created_at]]
            ELSE MapInsert(records, key, row)

get_record(records, collection, record_id) ==
    IF <<collection, record_id>> \in DOMAIN records
        THEN <<records[<<collection, record_id>>]>>
        ELSE <<>>

StoredRecord_to_record(row) ==
    [id |-> row.record_id,
     collection |-> row.collection,
     version |-> row.version,
     payload |-> row.payload,
     metadata |-> [created_at |-> row.created_at,
                   updated_at |-> row.updated_at,
                   origin |-> "Remote",
                   clock |-> LogicalClock_with_counter(row.clock_node_id,
                                                       AsU64(row.clock_counter))],
     deleted |-> row.deleted]

create_synthetic_op(record) == SyntheticOp(record.collection, record)

operation_to_record(op) ==
    IF op.type = "create"
        THEN Ok(Record_new(op.id, op.collection, op.payload, op.timestamp, op.clock))
    ELSE IF op.type = "update"
        THEN Err([kind |-> "BadRequest",
                  message |-> "Cannot create record from update operation"])
        ELSE Err([kind |-> "BadRequest",
                  message |-> "Cannot create record from delete operation"])

(* handle_push runs as a task: between two database calls other tasks may  *)
(* run. A task is [conn, operations, i, pc, existing, accepted, rejected]: *)
(* the connection it came over (None for HTTP), the request's operations,   *)
(* the index of the op in the loop, the database call it makes next, the    *)
(* record get_record returned, and the two lists of the response.           *)

Task_new(conn, operations) ==
    [conn |-> conn, operations |-> operations, i |-> 1,
     pc |-> IF operations = <<>> THEN "clock" ELSE "exists",
     existing |-> <<>>, accepted |-> <<>>, rejected |-> <<>>]

\* the loop of handle_push moves to its next op, or leaves the loop
Continue(t) ==
    IF t.i >= Len(t.operations)
        THEN [t EXCEPT !.i = Len(t.operations) + 1, !.pc = "clock",
                       !.existing = <<>>]
        ELSE [t EXCEPT !.i = @ + 1, !.pc = "exists", !.existing = <<>>]

\* the reconciliation of an incoming op with the record the server holds
PushReconcile(existing, op) ==
    Reconciler_reconcile(
        load_records(EmptyMap, existing, create_synthetic_op(existing), "Remote"),
        "ClockWins", <<op>>, <<>>)

\* one database call of handle_push and the code up to the next one:
\* [operations, records, task, out], out being None until the call returns
HandlePushStep(operations, records, t) ==
    LET op == t.operations[t.i]
        Running(ops, recs, task) ==
            [operations |-> ops, records |-> recs, task |-> task, out |-> <<>>]
        Returned(ops, recs, result) ==
            [operations |-> ops, records |-> recs,
             task |-> [t EXCEPT !.pc = "done"], out |-> <<result>>]
        Accepted(task) == [task EXCEPT !.accepted = Push(@, op.op_id)]
    IN  CASE t.pc = "exists" ->
                IF operation_exists(operations, op.op_id)
                    THEN Running(operations, records, Continue(Accepted(t)))
                    ELSE Running(operations, records, [t EXCEPT !.pc = "get"])
          [] t.pc = "get" ->
                LET stored == get_record(records, op.collection, op.id)
                IN  IF stored = <<>>
                        THEN Running(operations, records,
                                     [t EXCEPT !.pc = "insert", !.existing = <<>>])
                    ELSE LET existing == StoredRecord_to_record(stored[1])
                             result == PushReconcile(existing, op).result
                         IN  IF Contains(result.accepted_local, op.op_id)
                                THEN Running(operations, records,
                                             [t EXCEPT !.pc = "insert",
                                                       !.existing = <<existing>>])
                                ELSE Running(operations, records,
                                        Continue([t EXCEPT !.rejected =
                                            Push(@, [op_id |-> op.op_id,
                                                     reason |-> "conflict",
                                                     winner |-> <<create_synthetic_op(
                                                                    existing).op_id>>])]))
          [] t.pc = "insert" ->
                LET inserted == insert_operation(operations, op)
                    key == <<op.collection, op.id>>
                IN  IF ~inserted.ok
                        THEN IF is_unique_violation(inserted.error)
                                THEN Running(operations, records, Continue(Accepted(t)))
                                ELSE Returned(operations, records, inserted)
                    ELSE IF t.existing # <<>>
                        THEN IF key \in DOMAIN PushReconcile(t.existing[1], op).final_records
                                THEN Running(inserted.value, records,
                                             [t EXCEPT !.pc = "upsert"])
                                ELSE Running(inserted.value, records,
                                             Continue(Accepted(t)))
                    ELSE IF ~operation_to_record(op).ok
                        THEN Returned(inserted.value, records, operation_to_record(op))
                        ELSE Running(inserted.value, records, [t EXCEPT !.pc = "upsert"])
          [] t.pc = "upsert" ->
                LET key == <<op.collection, op.id>>
                    record == IF t.existing # <<>>
                                THEN PushReconcile(t.existing[1], op).final_records[key]
                                ELSE operation_to_record(op).value
                IN  Running(operations, upsert_record(records, record),
                            Continue(Accepted(t)))
          [] t.pc = "clock" ->
                Returned(operations, records,
                         Ok([accepted |-> t.accepted, rejected |-> t.rejected,
                             server_clock |-> get_server_clock(operations)]))

(* handlers/pull.rs and get_operations_since. A String is the sequence of  *)
(* its characters where the code formats or parses it.                      *)

DEFAULT_LIMIT == 100

MAX_LIMIT == 1000

\* the characters of the model's strings, in byte order
CharOrder ==
    << "+", "-", "0", "1", "2", "3", "4", "5", "6", "7", "8", "9",
       "A", "B", "C", "D", "E", "F", "G", "H", "_",
       "e", "g", "i", "n", "s", "t", "u", "x" >>

CharRank(c) == CHOOSE i \in 1..Len(CharOrder) : CharOrder[i] = c

\* the characters of an op id
Chars(str) ==
    CASE str = "__existing__u1" ->
            << "_", "_", "e", "x", "i", "s", "t", "i", "n", "g", "_", "_", "u", "1" >>
      [] str = "__existing__u2" ->
            << "_", "_", "e", "x", "i", "s", "t", "i", "n", "g", "_", "_", "u", "2" >>
      [] OTHER -> << str >>

\* str::cmp: byte-lexicographic
RECURSIVE CharsCmp(_, _)
CharsCmp(a, b) ==
    IF a = <<>> /\ b = <<>> THEN 0
    ELSE IF a = <<>> THEN -1
    ELSE IF b = <<>> THEN 1
    ELSE IF Head(a) # Head(b) THEN IntCmp(CharRank(Head(a)), CharRank(Head(b)))
    ELSE CharsCmp(Tail(a), Tail(b))

DigitChars == << "0", "1", "2", "3", "4", "5", "6", "7", "8", "9" >>

\* Display of a non-negative integer
RECURSIVE Digits(_)
Digits(n) ==
    IF n < 10 THEN << DigitChars[n + 1] >>
    ELSE Append(Digits(n \div 10), DigitChars[(n % 10) + 1])

\* Display of an i64
FormatI64(n) == IF n < 0 THEN << "-" >> \o Digits(0 - n) ELSE Digits(n)

\* format!("{}_{}", timestamp, op_id)
FormatToken(timestamp, op_id) == FormatI64(timestamp) \o << "_" >> \o Chars(op_id)

IsDigit(c) == \E d \in 1..10 : DigitChars[d] = c

DigitValue(c) == (CHOOSE d \in 1..10 : DigitChars[d] = c) - 1

RECURSIVE DigitsValue(_)
DigitsValue(chars) ==
    IF chars = <<>> THEN 0
    ELSE 10 * DigitsValue(SubSeq(chars, 1, Len(chars) - 1))
            + DigitValue(chars[Len(chars)])

\* str::parse::<i64>().unwrap_or(0): an optional sign, then digits only
ParseI64OrZero(chars) ==
    LET signed == chars # <<>> /\ Head(chars) \in {"+", "-"}
        digits == IF signed THEN Tail(chars) ELSE chars
    IN  IF digits = <<>> \/ \E i \in 1..Len(digits) : ~IsDigit(digits[i])
            THEN 0
        ELSE IF signed /\ Head(chars) = "-"
            THEN 0 - DigitsValue(digits)
            ELSE DigitsValue(digits)

\* token.splitn(2, '_'): split at the first underscore only
SplitN2(token) ==
    IF \E i \in 1..Len(token) : token[i] = "_"
        THEN LET at == CHOOSE i \in 1..Len(token) :
                          /\ token[i] = "_"
                          /\ \A j \in 1..(i - 1) : token[j] # "_"
             IN  << SubSeq(token, 1, at - 1), SubSeq(token, at + 1, Len(token)) >>
        ELSE << token >>

\* (timestamp, op_id) of a row compared with a pair: -1, 0 or 1
RowCmp(row, timestamp, op_id_chars) ==
    IF row.timestamp # timestamp THEN IntCmp(row.timestamp, timestamp)
    ELSE CharsCmp(Chars(row.op_id), op_id_chars)

\* a let binding whose value is computed once, before the body
LetIn(value, Body(_)) == CHOOSE r \in { Body(v) : v \in {value} } : TRUE

\* ORDER BY timestamp ASC, op_id ASC
RECURSIVE OrderByTimestampOpId(_)
OrderByTimestampOpId(rows) ==
    IF rows = <<>> THEN <<>>
    ELSE LetIn(CHOOSE i \in 1..Len(rows) :
                   \A j \in 1..Len(rows) :
                       RowCmp(rows[i], rows[j].timestamp,
                              Chars(rows[j].op_id)) <= 0,
               LAMBDA least :
                   << rows[least] >>
                       \o LetIn(SubSeq(rows, 1, least - 1)
                                   \o SubSeq(rows, least + 1, Len(rows)),
                                LAMBDA rest : OrderByTimestampOpId(rest)))

Take(seq, n) == SubSeq(seq, 1, IF n < Len(seq) THEN n ELSE Len(seq))

get_all_operations(operations, limit) ==
    LetIn(OrderByTimestampOpId(operations), LAMBDA rows : Take(rows, limit))

\* since_token is None (<<>>) or Some(chars)
get_operations_since(operations, since_token, limit) ==
    IF since_token = <<>> \/ since_token[1] = <<>>
        THEN get_all_operations(operations, limit)
    ELSE LetIn(SplitN2(since_token[1]), LAMBDA parts :
            IF Len(parts) # 2
                THEN get_all_operations(operations, limit)
                ELSE LetIn(ParseI64OrZero(parts[1]), LAMBDA since_timestamp :
                     LetIn(SelectSeq(operations,
                                     LAMBDA row : RowCmp(row, since_timestamp,
                                                         parts[2]) > 0),
                           LAMBDA selected :
                               LetIn(OrderByTimestampOpId(selected),
                                     LAMBDA rows : Take(rows, limit)))))

\* a clamp without the lower end
Clamp_upper_only(x, lo, hi) == IF x > hi THEN hi ELSE x

\* i64::clamp
Clamp(x, lo, hi) == IF x < lo THEN lo ELSE IF x > hi THEN hi ELSE x

\* the limit handle_pull works with: limit is None (<<>>) or Some(n)
PullLimit(limit) ==
    IF limit = <<>> THEN DEFAULT_LIMIT ELSE Clamp(limit[1], 1, MAX_LIMIT)

\* handle_pull: the PullResponse
handle_pull(operations, since, limit) ==
    LetIn(PullLimit(limit), LAMBDA n :
    LetIn(get_operations_since(operations, since, n + 1), LAMBDA stored_ops :
    LetIn(Take(stored_ops, n), LAMBDA ops_to_return :
    LetIn(SelectSeq(ops_to_return,
                    LAMBDA row : StoredOperation_to_operation(row).ok),
          LAMBDA converted :
        [operations |-> [i \in 1..Len(converted) |->
                            StoredOperation_to_operation(converted[i]).value],
         sync_token |-> IF ops_to_return # <<>>
                           THEN FormatToken(ops_to_return[Len(ops_to_return)].timestamp,
                                            ops_to_return[Len(ops_to_return)].op_id)
                           ELSE IF since = <<>> THEN <<>> ELSE since[1],
         has_more |-> Len(stored_ops) > n]))))

(* websocket/manager.rs and handlers/websocket.rs. mgr is [connections:   *)
(* conn_id -> Connection, by_node_id: node_id -> conn ids, channels:         *)
(* conn_id -> [open, queue], used: the conn ids handed out so far]. The      *)
(* channel of a connection is the mpsc channel behind Connection.sender: it  *)
(* is open until the connection's send task ends and drops the receiver.     *)

ConnectionManager_new ==
    [connections |-> EmptyMap, by_node_id |-> EmptyMap, channels |-> EmptyMap,
     used |-> {}]

\* mpsc::UnboundedSender::send: Ok and the message queued, or Err on a
\* channel whose receiver is gone
Sender_send(channel, message) ==
    IF channel.open
        THEN [ok |-> TRUE, channel |-> [channel EXCEPT !.queue = Append(@, message)]]
        ELSE [ok |-> FALSE, channel |-> channel]

ConnectionManager_register(m, conn_id, node_id) ==
    [m EXCEPT
        !.connections = MapInsert(@, conn_id, [id |-> conn_id, node_id |-> node_id]),
        !.by_node_id = MapInsert(@, node_id,
                                 IF node_id \in DOMAIN @ THEN Push(@[node_id], conn_id)
                                                         ELSE << conn_id >>),
        !.channels = MapInsert(@, conn_id, [open |-> TRUE, queue |-> <<>>]),
        !.used = @ \cup {conn_id}]

MapRemove(m, k) == [x \in DOMAIN m \ {k} |-> m[x]]

ConnectionManager_unregister(m, conn_id) ==
    IF conn_id \notin DOMAIN m.connections THEN m
    ELSE LET node_id == m.connections[conn_id].node_id
             rest == IF node_id \in DOMAIN m.by_node_id
                        THEN SelectSeq(m.by_node_id[node_id],
                                       LAMBDA id : id # conn_id)
                        ELSE <<>>
         IN  [m EXCEPT
                !.connections = MapRemove(@, conn_id),
                !.channels = MapRemove(@, conn_id),
                !.by_node_id =
                    IF node_id \notin DOMAIN @ THEN @
                    ELSE IF rest = <<>> THEN MapRemove(@, node_id)
                    ELSE [@ EXCEPT ![node_id] = rest]]

\* a broadcast that leaves nobody out
broadcast_except_nobody(m, sender_conn_id, message) ==
    LET receivers == { c \in DOMAIN m.connections : m.channels[c].open }
    IN  [mgr |-> [m EXCEPT !.channels =
                    [c \in DOMAIN @ |->
                        IF c \in receivers THEN Sender_send(@[c], message).channel
                                           ELSE @[c]]],
         sent_count |-> Cardinality(receivers)]

\* ConnectionManager::broadcast_except: [mgr, sent_count]
broadcast_except(m, sender_conn_id, message) ==
    LET receivers == { c \in DOMAIN m.connections :
                         /\ m.connections[c].id # sender_conn_id
                         /\ Sender_send(m.channels[c], message).ok }
    IN  [mgr |-> [m EXCEPT !.channels =
                    [c \in DOMAIN @ |->
                        IF c \in DOMAIN m.connections
                           /\ m.connections[c].id # sender_conn_id
                            THEN Sender_send(@[c], message).channel
                            ELSE @[c]]],
         sent_count |-> Cardinality(receivers)]

send_to_internal(m, conn_id, message) ==
    IF conn_id \in DOMAIN m.connections
        THEN [m EXCEPT !.channels[conn_id] = Sender_send(@, message).channel]
        ELSE m

ServerMessage_ops_available(operations, sync_token) ==
    [type |-> "ops_available", operations |-> operations, sync_token |-> sync_token]

\* what process_message does once handle_push has returned `result` for a
\* push of `operations` over conn_id at wall clock `now`:
\* [mgr, response, sent], sent being None when nothing is broadcast
process_message_push(m, conn_id, operations, result, now) ==
    IF ~result.ok
        THEN [mgr |-> m,
              response |-> [type |-> "error", message |-> result.error],
              sent |-> <<>>]
    ELSE LET accepted_ops == SelectSeq(operations,
                                LAMBDA op : Contains(result.value.accepted, op.op_id))
             response == [type |-> "push_response",
                          accepted |-> result.value.accepted,
                          rejected |-> result.value.rejected,
                          server_clock |-> result.value.server_clock]
         IN  IF result.value.accepted = <<>> \/ accepted_ops = <<>>
                THEN [mgr |-> m, response |-> response, sent |-> <<>>]
                ELSE LET message ==
                            ServerMessage_ops_available(accepted_ops,
                                FormatToken(now,
                                            accepted_ops[Len(accepted_ops)].op_id))
                         out == broadcast_except(m, conn_id, message)
                     IN  [mgr |-> out.mgr, response |-> response,
                          sent |-> << out.sent_count >>]

(* The requests the server model draws from, and its actions.             *)

\* the ops clients push: two creates of u1 from two nodes and an update of u1
PushOps ==
    { CreateOp_new("A", "u1", Users, PayloadOf("A"), 1000,
                   LogicalClock_with_counter("local", 3)),
      CreateOp_new("B", "u1", Users, PayloadOf("B"), 2000,
                   LogicalClock_with_counter("remote", 5)),
      UpdateOp_new("C", "u1", Users, PayloadOf("C"), 1, 1500,
                   LogicalClock_with_counter("local", 4)) }

\* the push requests: at most MaxPushOps operations each
PushRequests ==
    UNION { [1..n -> PushOps] : n \in 0..MaxPushOps }

\* the since values of pull requests: None, the empty string, the tokens the
\* server issues for the model's ops, a string without underscore and one
\* whose timestamp part is no number
PullSince ==
    { <<>>, << <<>> >>, << << "A" >> >>, << << "x", "_", "A" >> >> }
        \cup { << FormatToken(op.timestamp, op.op_id) >> : op \in PushOps }

\* the limits of pull requests: None and Some(n)
PullLimits == { <<>>, << 0 - 1 >>, << 0 >>, << 1 >>, << 2 >>, << MAX_LIMIT + 1 >> }

\* the ids register hands out, in the order it hands them out
ConnIds == << "c1", "c2", "c3" >>

NodeIds == { "local", "remote" }

\* chrono::Utc::now().timestamp_millis() as the model reads it
Now == 3000

ServerInit ==
    /\ srv = [operations |-> <<>>, records |-> EmptyMap, tasks |-> <<>>,
              pushes |-> 0, resp |-> [call |-> "none"]]
    /\ mgr = ConnectionManager_new
    /\ client = [token |-> <<>>, received |-> {}]
    /\ calls = EmptyMap

RemoveAt(seq, i) == SubSeq(seq, 1, i - 1) \o SubSeq(seq, i + 1, Len(seq))

\* POST /sync/push: handle_push starts
HttpPush ==
    \E operations \in PushRequests :
        /\ Len(srv.tasks) < MaxTasks
        /\ srv.pushes < MaxPushes
        /\ srv' = [srv EXCEPT !.tasks = Append(@, Task_new(<<>>, operations)),
                              !.pushes = @ + 1,
                              !.resp = [call |-> "request"]]
        /\ UNCHANGED <<mgr, client, calls, rvars, svars>>

\* a Push message arrives on a connection whose previous message is done with
WsPush ==
    \E conn_id \in DOMAIN mgr.connections, operations \in PushRequests :
        /\ Len(srv.tasks) < MaxWsTasks
        /\ srv.pushes < MaxWsPushes
        /\ \A i \in 1..Len(srv.tasks) : srv.tasks[i].conn # << conn_id >>
        /\ srv' = [srv EXCEPT !.tasks = Append(@, Task_new(<< conn_id >>, operations)),
                              !.pushes = @ + 1,
                              !.resp = [call |-> "request"]]
        /\ UNCHANGED <<mgr, client, calls, rvars, svars>>

\* a handle_push in progress makes its next database call; when it returns,
\* a push that came over a connection is broadcast and answered
PushStep ==
    \E i \in 1..Len(srv.tasks) :
        LET t == srv.tasks[i]
            step == HandlePushStep(srv.operations, srv.records, t)
            done == step.out # <<>>
            ws == IF done /\ t.conn # <<>>
                     THEN process_message_push(mgr, t.conn[1], t.operations,
                                               step.out[1], Now)
                     ELSE [mgr |-> mgr, response |-> <<>>, sent |-> <<>>]
        IN  /\ srv' = [srv EXCEPT
                        !.operations = step.operations,
                        !.records = step.records,
                        !.tasks = IF done THEN RemoveAt(@, i)
                                          ELSE [@ EXCEPT ![i] = step.task],
                        !.resp = IF done
                                    THEN [call |-> "push", conn |-> t.conn,
                                          operations |-> t.operations,
                                          result |-> step.out[1],
                                          sent |-> ws.sent]
                                    ELSE [call |-> "step"]]
            /\ mgr' = IF done /\ t.conn # <<>>
                         THEN send_to_internal(ws.mgr, t.conn[1], ws.response)
                         ELSE mgr
            /\ UNCHANGED <<client, calls, rvars, svars>>

\* GET /sync/pull
Pull ==
    \E since \in PullSince, limit \in PullLimits :
        /\ srv' = [srv EXCEPT !.resp =
                      [call |-> "pull", since |-> since, limit |-> limit,
                       result |-> handle_pull(srv.operations, since, limit)]]
        /\ UNCHANGED <<mgr, client, calls, rvars, svars>>

\* the limits the pulling client asks for
ClientLimits == { <<>>, << 1 >> }

\* GET /sync/pull by a client that passes the syncToken of its previous
\* response as since (None on its first pull) and keeps what it is sent
ClientPull ==
    \E limit \in ClientLimits :
        \E result \in { handle_pull(srv.operations, client.token, limit) } :
            /\ srv' = [srv EXCEPT !.resp =
                          [call |-> "pull", since |-> client.token,
                           limit |-> limit, result |-> result]]
            /\ client' = [token |-> << result.sync_token >>,
                          received |-> client.received
                                         \cup {result.operations[i].op_id :
                                                 i \in 1..Len(result.operations)}]
            /\ UNCHANGED <<mgr, calls, rvars, svars>>

\* register, first statement: self.connections.insert(conn_id, connection)
register_insert(m, conn_id, node_id) ==
    [m EXCEPT
        !.connections = MapInsert(@, conn_id, [id |-> conn_id, node_id |-> node_id]),
        !.channels = MapInsert(@, conn_id, [open |-> TRUE, queue |-> <<>>]),
        !.used = @ \cup {conn_id}]

\* register, second statement:
\* self.by_node_id.entry(node_id).or_default().push(conn_id)
register_index(m, conn_id, node_id) ==
    [m EXCEPT !.by_node_id =
        MapInsert(@, node_id, IF node_id \in DOMAIN @ THEN Push(@[node_id], conn_id)
                                                      ELSE << conn_id >>)]

\* unregister, first statement: self.connections.remove(conn_id);
\* found tells whether it returned Some
unregister_remove(m, conn_id) ==
    [found |-> conn_id \in DOMAIN m.connections,
     mgr |-> [m EXCEPT !.connections = MapRemove(@, conn_id),
                       !.channels = MapRemove(@, conn_id)]]

\* unregister under the guard of by_node_id.get_mut(&conn.node_id): retain,
\* then is_empty; empty tells whether the cleanup follows once the guard is
\* dropped
unregister_retain(m, conn_id, node_id) ==
    IF node_id \notin DOMAIN m.by_node_id
        THEN [empty |-> FALSE, mgr |-> m]
        ELSE LET rest == SelectSeq(m.by_node_id[node_id], LAMBDA id : id # conn_id)
             IN  [empty |-> rest = <<>>,
                  mgr |-> [m EXCEPT !.by_node_id[node_id] = rest]]

\* unregister, after drop(conn_ids): self.by_node_id.remove(&conn.node_id)
unregister_cleanup(m, node_id) ==
    [m EXCEPT !.by_node_id = MapRemove(@, node_id)]

ConnectionManager_connection_count(m) == Cardinality(DOMAIN m.connections)

ConnectionManager_node_count(m) == Cardinality(DOMAIN m.by_node_id)

CallsAt(pc) == {c \in DOMAIN calls : calls[c].pc = pc}

\* handle_websocket_connection calls register: the connection gets its id
\* and is put into connections
RegisterInsert ==
    \E node_id \in NodeIds :
        /\ Cardinality(mgr.used) < Len(ConnIds)
        /\ LET conn_id == ConnIds[Cardinality(mgr.used) + 1]
           IN  /\ mgr' = register_insert(mgr, conn_id, node_id)
               /\ calls' = MapInsert(calls, conn_id,
                                     [node_id |-> node_id, pc |-> "index"])
        /\ UNCHANGED <<srv, client, rvars, svars>>

\* register puts the connection into the index and returns
RegisterIndex ==
    \E conn_id \in CallsAt("index") :
        /\ mgr' = register_index(mgr, conn_id, calls[conn_id].node_id)
        /\ calls' = [calls EXCEPT ![conn_id].pc = "open"]
        /\ UNCHANGED <<srv, client, rvars, svars>>

\* the receive loop of a connection ends and unregister takes the
\* connection out of connections
UnregisterRemove ==
    \E conn_id \in CallsAt("open") :
        LET removed == unregister_remove(mgr, conn_id)
        IN  /\ mgr' = removed.mgr
            /\ calls' = [calls EXCEPT ![conn_id].pc =
                            IF removed.found THEN "retain" ELSE "closed"]
            /\ UNCHANGED <<srv, client, rvars, svars>>

\* unregister takes the id out of the node's entry of the index; it returns
\* unless the entry is left empty
UnregisterRetain ==
    \E conn_id \in CallsAt("retain") :
        LET retained == unregister_retain(mgr, conn_id, calls[conn_id].node_id)
        IN  /\ mgr' = retained.mgr
            /\ calls' = [calls EXCEPT ![conn_id].pc =
                            IF retained.empty THEN "cleanup" ELSE "closed"]
            /\ UNCHANGED <<srv, client, rvars, svars>>

\* unregister removes the node's entry it has found empty and returns
UnregisterCleanup ==
    \E conn_id \in CallsAt("cleanup") :
        /\ mgr' = unregister_cleanup(mgr, calls[conn_id].node_id)
        /\ calls' = [calls EXCEPT ![conn_id].pc = "closed"]
        /\ UNCHANGED <<srv, client, rvars, svars>>

\* a WebSocket client connects: handle_websocket_connection registers it
Register ==
    \E node_id \in NodeIds :
        /\ Cardinality(mgr.used) < Len(ConnIds)
        /\ mgr' = ConnectionManager_register(mgr, ConnIds[Cardinality(mgr.used) + 1],
                                             node_id)
        /\ UNCHANGED <<srv, client, calls, rvars, svars>>

\* the receive loop of a connection ends; it is not inside process_message
Unregister ==
    \E conn_id \in DOMAIN mgr.connections :
        /\ \A i \in 1..Len(srv.tasks) : srv.tasks[i].conn # << conn_id >>
        /\ mgr' = ConnectionManager_unregister(mgr, conn_id)
        /\ UNCHANGED <<srv, client, calls, rvars, svars>>

\* the send task of a connection ends on a failed WebSocket send: the
\* receiver of its channel is dropped while the connection stays registered
SendTaskEnds ==
    \E conn_id \in DOMAIN mgr.connections :
        /\ mgr.channels[conn_id].open
        /\ mgr' = [mgr EXCEPT !.channels[conn_id].open = FALSE]
        /\ UNCHANGED <<srv, client, calls, rvars, svars>>

(* Reads of the store. A Vec the code collects from HashMap::values() has   *)
(* no order the code fixes: it is the bag of its elements.                  *)

\* Collection::get
Collection_get(c, id) == IF id \in DOMAIN c THEN << c[id] >> ELSE <<>>

\* the records of a collection that pass `keep`, as a bag
RecordsWhere(c, keep(_)) ==
    LET kept == { k \in DOMAIN c : keep(c[k]) }
    IN  [r \in { c[k] : k \in kept } |-> Cardinality({ k \in kept : c[k] = r })]

Collection_active_records(c) == RecordsWhere(c, LAMBDA r : ~r.deleted)

Collection_all_records(c) == RecordsWhere(c, LAMBDA r : TRUE)

\* Collection::len: the count of active records
Collection_len(c) == Cardinality({ k \in DOMAIN c : ~c[k].deleted })

\* a get that does not look at the deleted flag
Store_get_unfiltered(s, collection, id) ==
    IF collection \in DOMAIN s.collections
        THEN Collection_get(s.collections[collection], id)
        ELSE <<>>

\* Store::get
Store_get(s, collection, id) ==
    IF collection \in DOMAIN s.collections
        THEN LET found == Collection_get(s.collections[collection], id)
             IN  IF found # <<>> /\ ~found[1].deleted THEN found ELSE <<>>
        ELSE <<>>

\* Store::get_including_deleted
Store_get_including_deleted(s, collection, id) ==
    IF collection \in DOMAIN s.collections
        THEN Collection_get(s.collections[collection], id)
        ELSE <<>>

QueryBuilder_new(c) == [collection |-> c, include_deleted |-> FALSE]

\* Store::query
Store_query(s, collection) ==
    IF collection \in DOMAIN s.collections
        THEN << QueryBuilder_new(s.collections[collection]) >>
        ELSE <<>>

QueryBuilder_include_deleted(q) == [q EXCEPT !.include_deleted = TRUE]

QueryBuilder_all(q) ==
    IF q.include_deleted THEN Collection_all_records(q.collection)
                         ELSE Collection_active_records(q.collection)

QueryBuilder_count(q) ==
    IF q.include_deleted THEN Cardinality(DOMAIN q.collection)
                         ELSE Collection_len(q.collection)

StoreInit ==
    /\ store = Store_new
    /\ ret = [call |-> "new"]

SetStore(s) == store' = s

\* the call panicked: the program makes no further call
Panicked == ret.call = "panic"

\* Store::tick; on a counter of u64::MAX it panics or wraps, as the build has it
Tick ==
    /\ ~Panicked
    /\ store.clock.counter < MaxTick \/ TickOverflows(store.clock)
    /\ \/ /\ SetStore(Store_tick(store))
          /\ ret' = [call |-> "tick", result |-> Store_tick(store).clock]
       \/ /\ TickOverflows(store.clock)
          /\ UNCHANGED store
          /\ ret' = [call |-> "panic", in |-> "tick"]
    /\ UNCHANGED <<rvars, srvvars>>

Apply ==
    \E op \in ApplyOps :
        LET out == Store_apply(store, op, op.timestamp)
        IN  /\ ~Panicked
            /\ WithinBounds(out.store)
            /\ SetStore(out.store)
            /\ ret' = [call |-> "apply", op |-> op, timestamp |-> op.timestamp,
                       result |-> out.result]
            /\ UNCHANGED <<rvars, srvvars>>

Acknowledge ==
    \E op_ids \in AckSets :
        /\ ~Panicked
        /\ SetStore(Store_acknowledge(store, op_ids))
        /\ ret' = [call |-> "acknowledge", op_ids |-> op_ids]
        /\ UNCHANGED <<rvars, srvvars>>

ClearPending ==
    /\ ~Panicked
    /\ SetStore(Store_clear_pending(store))
    /\ ret' = [call |-> "clear_pending"]
    /\ UNCHANGED <<rvars, srvvars>>

StoreReconcile ==
    \E remote_ops \in RemoteBatches, strategy \in Strategies :
        LET out == Store_reconcile(store, remote_ops, strategy)
        IN  /\ ~Panicked
            /\ WithinBounds(out.store)
            /\ SetStore(out.store)
            /\ ret' = [call |-> "reconcile", remote_ops |-> remote_ops,
                       strategy |-> strategy, result |-> out.result]
            /\ UNCHANGED <<rvars, srvvars>>

\* Store::export_state, the HashMaps iterated in some order
ExportState ==
    \E order \in IterationOrders(store.collections) :
        /\ ~Panicked
        /\ UNCHANGED store
        /\ ret' = [call |-> "export_state",
                   result |-> Store_export_state(store, order)]
        /\ UNCHANGED <<rvars, srvvars>>

\* Store::import_state of a snapshot just exported, or of a hand-built one
ImportState ==
    \E snapshot \in ImportSnapshots
                        \cup (IF ret.call = "export_state" THEN {ret.result}
                                                           ELSE {}) :
        LET out == Store_import_state(store, snapshot)
        IN  /\ ~Panicked
            /\ WithinBounds(out.store)
            /\ SetStore(out.store)
            /\ ret' = [call |-> "import_state", snapshot |-> snapshot,
                       result |-> out.result]
            /\ UNCHANGED <<rvars, srvvars>>

\* the collections and ids the store is read with
ReadCollections == { Users, "ghosts" }

ReadIds == { "u1", "u2", "u3" }

Get ==
    \E collection \in ReadCollections, id \in ReadIds :
        /\ ~Panicked
        /\ ret' = [call |-> "get", collection |-> collection, id |-> id,
                   result |-> Store_get(store, collection, id)]
        /\ UNCHANGED <<store, rvars, srvvars>>

GetIncludingDeleted ==
    \E collection \in ReadCollections, id \in ReadIds :
        /\ ~Panicked
        /\ ret' = [call |-> "get_including_deleted",
                   collection |-> collection, id |-> id,
                   result |-> Store_get_including_deleted(store, collection, id)]
        /\ UNCHANGED <<store, rvars, srvvars>>

\* query(collection), with or without include_deleted(), then count() and all()
Query ==
    \E collection \in ReadCollections, include_deleted \in BOOLEAN :
        LET q == Store_query(store, collection)
            builder == IF include_deleted THEN QueryBuilder_include_deleted(q[1])
                                          ELSE q[1]
        IN  /\ ~Panicked
            /\ ret' = [call |-> "query", collection |-> collection,
                       include_deleted |-> include_deleted,
                       result |-> IF q = <<>> THEN <<>>
                                  ELSE << [count |-> QueryBuilder_count(builder),
                                           all |-> QueryBuilder_all(builder)] >>]
            /\ UNCHANGED <<store, rvars, srvvars>>

Init ==
    /\ StoreInit
    /\ ServerInit
    /\ rc_phase = "new"
    /\ rc_strategy = "ClockWins"
    /\ rc_records = EmptyMap
    /\ rc_local = <<>>
    /\ rc_remote = <<>>
    /\ rc_result = ReconcileResult_new
    /\ rc_final = EmptyMap

Next ==
    \/ Tick
    \/ Apply
    \/ Acknowledge
    \/ ClearPending
    \/ StoreReconcile
    \/ ExportState
    \/ ImportState

Spec == Init /\ [][Next]_vars

\* a store that is written by apply and read
ReadNext == Apply \/ Get \/ GetIncludingDeleted \/ Query

SpecRead == Init /\ [][ReadNext]_vars

\* the clocks the clock harness compares and merges
Clocks ==
    { LogicalClock_with_counter(node_id, counter) :
        node_id \in { "local", "remote" },
        counter \in { 0, 1, MaxCounter - 1, MaxCounter } }

\* three clocks are at hand
ClockInit ==
    /\ store = Store_new
    /\ ret \in { [call |-> "clocks", a |-> a, b |-> b, c |-> c] :
                    a \in Clocks, b \in Clocks, c \in Clocks }
    /\ ServerInit
    /\ rc_phase = "new"
    /\ rc_strategy = "ClockWins"
    /\ rc_records = EmptyMap
    /\ rc_local = <<>>
    /\ rc_remote = <<>>
    /\ rc_result = ReconcileResult_new
    /\ rc_final = EmptyMap

\* a.cmp(b), b.cmp(a), b.cmp(c), a.cmp(c)
ClockCmp ==
    /\ ret.call = "clocks"
    /\ ret' = [call |-> "cmp", a |-> ret.a, b |-> ret.b, c |-> ret.c,
               ab |-> LogicalClock_cmp(ret.a, ret.b),
               ba |-> LogicalClock_cmp(ret.b, ret.a),
               bc |-> LogicalClock_cmp(ret.b, ret.c),
               ac |-> LogicalClock_cmp(ret.a, ret.c)]
    /\ UNCHANGED <<store, rvars, srvvars>>

\* a.merge(&b), and a.merge(&b) once more
ClockMerge ==
    /\ ret.call = "clocks"
    /\ ret' = [call |-> "merge", a |-> ret.a, b |-> ret.b,
               merged |-> LogicalClock_merge(ret.a, ret.b),
               twice |-> LogicalClock_merge(LogicalClock_merge(ret.a, ret.b),
                                            ret.b)]
    /\ UNCHANGED <<store, rvars, srvvars>>

\* a.tick(); on a counter of u64::MAX it panics or wraps, as the build has it
ClockTick ==
    /\ ret.call = "clocks"
    /\ \/ ret' = [call |-> "tick", a |-> ret.a, result |-> LogicalClock_tick(ret.a)]
       \/ /\ TickOverflows(ret.a)
          /\ ret' = [call |-> "panic", in |-> "tick"]
    /\ UNCHANGED <<store, rvars, srvvars>>

ClockNext == ClockCmp \/ ClockMerge \/ ClockTick

SpecClock == ClockInit /\ [][ClockNext]_vars

----------------------------------------------------------------------------
(* SpecRec: Reconciler::new, load_records, reconcile                       *)

RecInit ==
    /\ rc_phase = "new"
    /\ rc_strategy \in Strategies
    /\ rc_records = EmptyMap
    /\ rc_local = <<>>
    /\ rc_remote = <<>>
    /\ rc_result = ReconcileResult_new
    /\ rc_final = EmptyMap
    /\ StoreInit
    /\ ServerInit

LoadRecords ==
    /\ rc_phase = "new"
    /\ Cardinality(DOMAIN rc_records) < MaxLoaded
    /\ \E source \in {"Local", "Remote"}, deleted \in BOOLEAN :
          LET record == SeedRecord(source, deleted)
          IN  rc_records' = load_records(rc_records, record,
                                SyntheticOp(record.collection, record), source)
    /\ UNCHANGED <<rc_phase, rc_strategy, rc_local, rc_remote, rc_result, rc_final>>
    /\ UNCHANGED <<svars, srvvars>>

Reconcile ==
    /\ rc_phase = "new"
    /\ \E nl \in 0..MaxOps :
       \E nr \in 0..(MaxOps - nl) :
       \E ls \in [1..nl -> Shapes], rs \in [1..nr -> Shapes] :
          LET local_ops == OpList(ls, LocalOpIds, "local")
              remote_ops == OpList(rs, RemoteOpIds, "remote")
              out == Reconciler_reconcile(rc_records, rc_strategy,
                                          local_ops, remote_ops)
          IN  /\ rc_local' = local_ops
              /\ rc_remote' = remote_ops
              /\ rc_result' = out.result
              /\ rc_final' = out.final_records
    /\ rc_phase' = "done"
    /\ UNCHANGED <<rc_strategy, rc_records>>
    /\ UNCHANGED <<svars, srvvars>>

RecNext == LoadRecords \/ Reconcile

SpecRec == RecInit /\ [][RecNext]_vars

----------------------------------------------------------------------------
(* SpecSync: the HTTP endpoints of the server, pushes running concurrently. *)
(* SpecWs: WebSocket connections and the pushes that come over them.        *)

SyncNext == HttpPush \/ PushStep \/ Pull

SpecSync == Init /\ [][SyncNext]_vars

\* SpecPull: pushes running concurrently with a client that keeps pulling:
\* whenever a pull would bring the client something, it is eventually made
PullNext == HttpPush \/ PushStep \/ ClientPull

SpecPull == Init /\ [][PullNext]_vars /\ WF_vars(ClientPull)

\* SpecMgr: register and unregister calls running concurrently, one
\* statement on a DashMap at a time
MgrNext ==
    \/ RegisterInsert
    \/ RegisterIndex
    \/ UnregisterRemove
    \/ UnregisterRetain
    \/ UnregisterCleanup

SpecMgr == Init /\ [][MgrNext]_vars

WsNext == Register \/ Unregister \/ SendTaskEnds \/ WsPush \/ PushStep

SpecWs == Init /\ [][WsNext]_vars

----------------------------------------------------------------------------
(* Properties of Reconciler::reconcile, checked under SpecRec.             *)

RecDone == rc_phase = "done"

Perms(seq) ==
    { [i \in 1..Len(seq) |-> seq[p[i]]] : p \in Permutations(1..Len(seq)) }

IdsOf(ops) == { ops[i].op_id : i \in 1..Len(ops) }

KeysOf(ops) == { KeyOf(ops[i]) : i \in 1..Len(ops) }

\* C1: Reconciler::reconcile is order-insensitive: with the loaded records and
\* the strategy fixed, every permutation of local_ops and every permutation of
\* remote_ops (op_ids pairwise distinct) returns the same final record map and
\* the same ReconcileResult, list by list, as the call that was made.
C1_OrderInsensitive ==
    RecDone =>
        \A pl \in Perms(rc_local), pr \in Perms(rc_remote) :
            Reconciler_reconcile(rc_records, rc_strategy, pl, pr)
                = [result |-> rc_result, final_records |-> rc_final]

\* C1 witness: a call whose two local ops were handed over in descending order,
\* with a remote op and a recorded conflict
C1_Witness ==
    /\ RecDone
    /\ Len(rc_local) = 2
    /\ Len(rc_remote) = 1
    /\ Operation_cmp(rc_local[1], rc_local[2]) > 0
    /\ rc_result.conflicts # <<>>


\* the fields of a record that two replicas must agree on
Content(record) ==
    [payload |-> record.payload, version |-> record.version,
     deleted |-> record.deleted]

\* C2: two replicas that start from the same base records and hold one op each
\* on the same record converge: reconcile([lA],[lB]) on A and
\* reconcile([lB],[lA]) on B leave that record with the same payload, version
\* and deleted flag (or leave it absent on both), whatever the base record, the
\* op kinds and the clocks.
C2_Convergence ==
    (/\ RecDone
     /\ Len(rc_local) = 1
     /\ Len(rc_remote) = 1
     /\ KeyOf(rc_local[1]) = KeyOf(rc_remote[1]))
    => LET key == KeyOf(rc_local[1])
           final_b == Reconciler_reconcile(rc_records, rc_strategy,
                                           rc_remote, rc_local).final_records
       IN  /\ key \in DOMAIN rc_final <=> key \in DOMAIN final_b
           /\ key \in DOMAIN rc_final
                => Content(rc_final[key]) = Content(final_b[key])

\* the operation total order written out: clock counter, clock node_id,
\* timestamp, op_id
OpGreater(a, b) ==
    \/ a.clock.counter > b.clock.counter
    \/ /\ a.clock.counter = b.clock.counter
       /\ \/ StrRank(a.clock.node_id) > StrRank(b.clock.node_id)
          \/ /\ a.clock.node_id = b.clock.node_id
             /\ \/ a.timestamp > b.timestamp
                \/ /\ a.timestamp = b.timestamp
                   /\ StrRank(a.op_id) > StrRank(b.op_id)

\* C3: under ClockWins every recorded Conflict is won by the larger of
\* (local_op, remote_op) in the operation total order: RemoteWins iff remote_op
\* is the larger one, winner_op_id is the winner's op_id, and the conflicts do
\* not depend on the order in which the ops were supplied. Local counter 5
\* against remote counter 3 is LocalWins; equal counters on nodes "local" and
\* "remote" are RemoteWins.
C3_ClockWinsWinner ==
    (RecDone /\ rc_strategy = "ClockWins") =>
        /\ \A i \in 1..Len(rc_result.conflicts) :
              LET c == rc_result.conflicts[i]
              IN  /\ c.resolution = "RemoteWins" <=> OpGreater(c.remote_op, c.local_op)
                  /\ c.resolution = "LocalWins" <=> ~OpGreater(c.remote_op, c.local_op)
                  /\ c.winner_op_id = IF c.resolution = "LocalWins"
                                        THEN c.local_op.op_id
                                        ELSE c.remote_op.op_id
                  /\ (c.local_op.clock.counter = 5 /\ c.remote_op.clock.counter = 3)
                        => c.resolution = "LocalWins"
                  /\ (/\ c.local_op.clock.counter = c.remote_op.clock.counter
                      /\ c.local_op.clock.node_id = "local"
                      /\ c.remote_op.clock.node_id = "remote")
                        => c.resolution = "RemoteWins"
        /\ \A pl \in Perms(rc_local), pr \in Perms(rc_remote) :
              Reconciler_reconcile(rc_records, rc_strategy, pl, pr).result.conflicts
                  = rc_result.conflicts

\* C3 witness: a ClockWins call that recorded a LocalWins and a RemoteWins
C3_Witness ==
    /\ RecDone
    /\ rc_strategy = "ClockWins"
    /\ \E i, j \in 1..Len(rc_result.conflicts) :
          /\ rc_result.conflicts[i].resolution = "LocalWins"
          /\ rc_result.conflicts[j].resolution = "RemoteWins"

\* the larger of two ops by (clock, op_id)
ClockOpIdGreater(a, b) ==
    \/ LogicalClock_cmp(a.clock, b.clock) > 0
    \/ LogicalClock_cmp(a.clock, b.clock) = 0 /\ StrRank(a.op_id) > StrRank(b.op_id)

\* C4: under TimestampWins every recorded Conflict is won by the op with the
\* larger timestamp, and on equal timestamps by the op that is larger under
\* (clock, op_id).
C4_TimestampWinsWinner ==
    (RecDone /\ rc_strategy = "TimestampWins") =>
        \A i \in 1..Len(rc_result.conflicts) :
            LET c == rc_result.conflicts[i]
                remote_larger ==
                    \/ c.remote_op.timestamp > c.local_op.timestamp
                    \/ /\ c.remote_op.timestamp = c.local_op.timestamp
                       /\ ClockOpIdGreater(c.remote_op, c.local_op)
            IN  /\ c.resolution = "RemoteWins" <=> remote_larger
                /\ c.winner_op_id = IF remote_larger THEN c.remote_op.op_id
                                                     ELSE c.local_op.op_id

\* a TimestampWins conflict between ops of equal timestamp
C4_Witness ==
    /\ RecDone
    /\ rc_strategy = "TimestampWins"
    /\ \E i \in 1..Len(rc_result.conflicts) :
          rc_result.conflicts[i].local_op.timestamp
              = rc_result.conflicts[i].remote_op.timestamp


\* no local op of the call and remote op of the call target the same record
Disjoint(local_ops, remote_ops) == KeysOf(local_ops) \cap KeysOf(remote_ops) = {}

\* every op is accepted, nothing is rejected, no conflict is recorded and every
\* created record is in the final map
AllAccepted(local_ops, remote_ops, result, final_records) ==
    /\ result.conflicts = <<>>
    /\ IdsOf(local_ops) \subseteq Elems(result.accepted_local)
    /\ IdsOf(remote_ops) \subseteq Elems(result.applied_remote)
    /\ result.rejected_local = <<>>
    /\ result.rejected_remote = <<>>
    /\ \A i \in 1..Len(local_ops) :
          local_ops[i].type = "create" => KeyOf(local_ops[i]) \in DOMAIN final_records
    /\ \A i \in 1..Len(remote_ops) :
          remote_ops[i].type = "create" => KeyOf(remote_ops[i]) \in DOMAIN final_records

\* C7 as stated: with whatever records are loaded, a call whose local and
\* remote ops target disjoint records records no conflict and accepts every op.
C7_DisjointAnyExisting ==
    (RecDone /\ Disjoint(rc_local, rc_remote))
        => AllAccepted(rc_local, rc_remote, rc_result, rc_final)

\* no op targets a loaded record whose source is the other side
NoForeignRecord(records, local_ops, remote_ops) ==
    /\ \A i \in 1..Len(local_ops) :
          KeyOf(local_ops[i]) \in DOMAIN records
              => records[KeyOf(local_ops[i])].last_source = "Local"
    /\ \A i \in 1..Len(remote_ops) :
          KeyOf(remote_ops[i]) \in DOMAIN records
              => records[KeyOf(remote_ops[i])].last_source = "Remote"

\* C7 amended: a call whose local and remote ops target disjoint records, none
\* of them a loaded record whose source is the other side, records no conflict,
\* lists every local op id in accepted_local and every remote op id in
\* applied_remote, rejects nothing, and its final map holds every created record.
C7_DisjointSafety ==
    (/\ RecDone
     /\ Disjoint(rc_local, rc_remote)
     /\ NoForeignRecord(rc_records, rc_local, rc_remote))
        => AllAccepted(rc_local, rc_remote, rc_result, rc_final)

\* C7 witness: local ops on a loaded Local record, a remote create of another
\* record, every op accepted
C7_Witness ==
    /\ RecDone
    /\ rc_records # EmptyMap
    /\ Len(rc_local) = 2
    /\ Len(rc_remote) = 1
    /\ KeysOf(rc_local) = DOMAIN rc_records
    /\ Disjoint(rc_local, rc_remote)
    /\ NoForeignRecord(rc_records, rc_local, rc_remote)
    /\ DOMAIN rc_final = KeysOf(rc_local) \cup KeysOf(rc_remote)
    /\ AllAccepted(rc_local, rc_remote, rc_result, rc_final)

\* C8: in every ReconcileResult no op_id is both in accepted_local and in
\* rejected_local, and none is both in applied_remote and in rejected_remote.
C8_AcceptedRejectedDisjoint ==
    RecDone =>
        /\ Elems(rc_result.accepted_local) \cap Elems(rc_result.rejected_local) = {}
        /\ Elems(rc_result.applied_remote) \cap Elems(rc_result.rejected_remote) = {}

\* a call in which a remote op was applied and later lost a conflict
C8_Witness ==
    /\ RecDone
    /\ rc_result.rejected_remote # <<>>
    /\ rc_result.applied_remote # <<>>

\* every step of the walk that changes the working state leaves the record of
\* the op's key with the op's source as origin and the op's clock and timestamp
RECURSIVE AppliedMetadataOk(_, _, _)
AppliedMetadataOk(st, strategy, ops) ==
    \/ ops = <<>>
    \/ LET tracked == Head(ops)
           op == tracked.operation
           next == apply_tracked_op(st, strategy, tracked)
       IN  /\ next.records # st.records =>
                LET metadata == next.records[KeyOf(op)].record.metadata
                IN  /\ metadata.origin = tracked.source
                    /\ metadata.clock = op.clock
                    /\ metadata.updated_at = op.timestamp
           /\ AppliedMetadataOk(next, strategy, Tail(ops))

\* the sorted walk of the call that was made
RecWalk ==
    sort_by([i \in 1..Len(rc_local) |-> TrackedOp_local(rc_local[i])]
            \o [i \in 1..Len(rc_remote) |-> TrackedOp_remote(rc_remote[i])])

\* C9: whenever reconcile applies an op to the working state, the record's
\* metadata.origin is the op's source and metadata.clock and metadata.updated_at
\* are the op's clock and timestamp.
C9_AppliedMetadata ==
    RecDone =>
        AppliedMetadataOk([records |-> rc_records, result |-> ReconcileResult_new],
                          rc_strategy, RecWalk)

\* a call that applied a remote Create
C9_Witness ==
    /\ RecDone
    /\ rc_local = <<>>
    /\ Len(rc_remote) = 1
    /\ rc_remote[1].type = "create"
    /\ rc_result.applied_remote = <<rc_remote[1].op_id>>
    /\ KeyOf(rc_remote[1]) \in DOMAIN rc_final

----------------------------------------------------------------------------
(* Properties of the Store, checked under Spec.                            *)

\* the step is a call of apply that returned Ok, or a call of reconcile
AppliedOrReconciled ==
    \/ ret'.call = "apply" /\ ret'.result.ok
    \/ ret'.call = "reconcile"

\* C5: version monotonicity: across a successful apply and across a reconcile
\* (any remote batch, either strategy) no record the Store holds ends with a
\* smaller version than it had.
C5_VersionMonotonic ==
    [][AppliedOrReconciled =>
          \A e \in StoreEntries(store.collections) :
              /\ e \in StoreEntries(store'.collections)
              /\ store'.collections[e[1]][e[2]].version
                    >= store.collections[e[1]][e[2]].version]_vars

\* a reconcile returned and the store holds a record of version 2 or more
C5_Witness ==
    /\ ret.call = "reconcile"
    /\ \E r \in AllRecords(store.collections) : r.version >= 2

\* the two ops of scenario E4
E4_Delete ==
    DeleteOp_new("C", "u1", Users, 1, 2000, LogicalClock_with_counter("local", 10))

E4_Update ==
    UpdateOp_new("B", "u1", Users, PayloadOf("B"), 1, 2500,
                 LogicalClock_with_counter("remote", 5))

\* C6: with u1 at version 1, once the store has applied the local
\* Delete(base_version 1, clock ("local", 10)) and then reconciles the remote
\* Update(base_version 1, clock ("remote", 5)) under ClockWins, u1 is
\* tombstoned and its version is 2.
C6_DeleteVsUpdate ==
    [][(/\ ret.call = "apply"
        /\ ret.op = E4_Delete
        /\ ret.result.ok
        /\ ret.result.value.version = 2
        /\ PendingOperations(store.pending_ops) = <<E4_Delete>>
        /\ ret'.call = "reconcile"
        /\ ret'.strategy = "ClockWins"
        /\ ret'.remote_ops = <<E4_Update>>)
       => /\ store'.collections[Users]["u1"].deleted
          /\ store'.collections[Users]["u1"].version = 2]_vars

\* the store has applied the Delete of E4 to u1 at version 1, the Create
\* before it no longer pending
C6_Witness ==
    /\ ret.call = "apply"
    /\ ret.op = E4_Delete
    /\ ret.result.ok
    /\ ret.result.value.version = 2
    /\ PendingOperations(store.pending_ops) = <<E4_Delete>>

\* C10: after Store::reconcile returns, the Store holds every record of the
\* reconciler's final map under that record's (collection, id), and holds no
\* record that the final map does not have, for any remote batch.
C10_StoreHoldsFinalMap ==
    [][ret'.call = "reconcile" =>
          LET final_records ==
                  Store_reconcile(store, ret'.remote_ops, ret'.strategy).final_records
          IN  /\ \A k \in DOMAIN final_records :
                    /\ k \in StoreEntries(store'.collections)
                    /\ store'.collections[k[1]][k[2]] = final_records[k]
              /\ StoreEntries(store'.collections) \subseteq DOMAIN final_records]_vars

\* a reconcile applied a remote op of a collection the schema does not have
C10_Witness ==
    /\ ret.call = "reconcile"
    /\ Len(ret.remote_ops) = 1
    /\ ret.remote_ops[1].collection \notin DOMAIN schema.collections
    /\ ret.result.applied_remote = <<ret.remote_ops[1].op_id>>

\* the op_ids of the pending entries, in queue order
PendingIds(pending) == [i \in 1..Len(pending) |-> pending[i].operation.op_id]

\* C11: Store::reconcile prunes the pending queue exactly: the queue afterwards
\* is the queue before without the entries whose op_id is in
\* result.rejected_local, survivors in their original order; an accepted local
\* op that was not rejected is still pending.
C11_PrunesRejectedOnly ==
    [][ret'.call = "reconcile" =>
          LET rejected == Elems(ret'.result.rejected_local)
          IN  /\ store'.pending_ops
                    = SelectSeq(store.pending_ops,
                                LAMBDA p : p.operation.op_id \notin rejected)
              /\ \A i \in 1..Len(store.pending_ops) :
                    (/\ Contains(ret'.result.accepted_local,
                                 store.pending_ops[i].operation.op_id)
                     /\ store.pending_ops[i].operation.op_id \notin rejected)
                        => Contains(store'.pending_ops, store.pending_ops[i])]_vars

\* C11 witness: a reconcile that rejected one pending op and kept another
C11_Witness ==
    /\ ret.call = "reconcile"
    /\ ret.result.rejected_local # <<>>
    /\ ret.result.debug_pending_before = <<2>>
    /\ ret.result.debug_pending_after = <<1>>
    /\ Contains(ret.result.accepted_local, store.pending_ops[1].operation.op_id)

\* sub is seq with some of its entries left out, the others in their order
IsSubsequenceOf(sub, seq) ==
    \E keep \in SUBSET (1..Len(seq)) :
        sub = [j \in 1..Cardinality(keep) |->
                seq[CHOOSE i \in keep : Cardinality({k \in keep : k < i}) = j - 1]]

\* C12: the pending queue holds its entries in the order in which their ops
\* were successfully applied (a successful apply appends its op at the end,
\* every other call leaves a subsequence of the queue), and no two pending
\* entries share an op_id.
C12_PendingInvariant ==
    [][/\ IF ret'.call = "apply" /\ ret'.result.ok
              THEN store'.pending_ops
                     = Append(store.pending_ops,
                              [operation |-> ret'.op, applied_at |-> ret'.timestamp])
              ELSE IsSubsequenceOf(store'.pending_ops, store.pending_ops)
       /\ \A i, j \in 1..Len(store'.pending_ops) :
              i # j => PendingIds(store'.pending_ops)[i]
                         # PendingIds(store'.pending_ops)[j]]_vars

\* two ops are pending
C12_Witness == Len(store.pending_ops) = 2

\* C13: after acknowledge(ids) no pending entry has an op_id in ids, every
\* entry whose op_id is not in ids is still there, once and in its original
\* relative order, ids that match no entry change nothing, and records and
\* clock are as before.
C13_AcknowledgeCorrect ==
    [][ret'.call = "acknowledge" =>
          /\ \A i \in 1..Len(store'.pending_ops) :
                PendingIds(store'.pending_ops)[i] \notin ret'.op_ids
          /\ store'.pending_ops
                = SelectSeq(store.pending_ops,
                            LAMBDA p : p.operation.op_id \notin ret'.op_ids)
          /\ (\A i \in 1..Len(store.pending_ops) :
                    PendingIds(store.pending_ops)[i] \notin ret'.op_ids)
                => store'.pending_ops = store.pending_ops
          /\ store'.collections = store.collections
          /\ store'.clock = store.clock]_vars

\* C13 witness: acknowledge({"A", "E"}) removed the entry A, kept the entry C
\* and found no entry E
C13_Witness ==
    /\ ret.call = "acknowledge"
    /\ ret.op_ids = {"A", "E"}
    /\ PendingIds(store.pending_ops) = <<"C">>

\* the record an op targets is held by the store
Held(s, op) ==
    /\ op.collection \in DOMAIN s.collections
    /\ op.id \in DOMAIN s.collections[op.collection]

Target(s, op) == s.collections[op.collection][op.id]

\* C14: apply of an Update or Delete that passes schema validation succeeds
\* iff the record exists, is not deleted and has version op.base_version; on
\* success the version goes up by exactly 1 and ApplyResult.version is the new
\* version; otherwise the error is RecordNotFound, else OperationOnDeleted,
\* else VersionMismatch{expected = op.base_version, actual = record.version}.
C14_UpdateDeleteApply ==
    [][(/\ ret'.call = "apply"
        /\ ret'.op.type \in {"update", "delete"}
        /\ validate_operation(schema, ret'.op).ok)
       => LET op == ret'.op
              result == ret'.result
          IN  /\ result.ok <=> (/\ Held(store, op)
                                /\ ~Target(store, op).deleted
                                /\ Target(store, op).version = op.base_version)
              /\ result.ok =>
                    /\ Target(store', op).version = Target(store, op).version + 1
                    /\ result.value.version = Target(store', op).version
              /\ ~result.ok =>
                    result.error =
                        IF ~Held(store, op)
                            THEN [kind |-> "RecordNotFound", id |-> op.id]
                        ELSE IF Target(store, op).deleted
                            THEN [kind |-> "OperationOnDeleted", id |-> op.id]
                        ELSE [kind |-> "VersionMismatch",
                              expected |-> op.base_version,
                              actual |-> Target(store, op).version]]_vars

\* C14 witness: an Update was refused with VersionMismatch on a record of
\* version 2
C14_Witness ==
    /\ ret.call = "apply"
    /\ ret.op.type = "update"
    /\ ~ret.result.ok
    /\ ret.result.error.kind = "VersionMismatch"
    /\ ret.result.error.actual = 2

\* what apply answers on a record that is held: Create is refused with
\* RecordAlreadyExists, Update and Delete of a tombstone with
\* OperationOnDeleted, and a tombstone is left as it is
TombstoneFinal(s, s_after, op, result) ==
    /\ op.type = "create" =>
          /\ ~result.ok
          /\ result.error = [kind |-> "RecordAlreadyExists", id |-> op.id]
    /\ (op.type \in {"update", "delete"} /\ Target(s, op).deleted) =>
          /\ ~result.ok
          /\ result.error = [kind |-> "OperationOnDeleted", id |-> op.id]
    /\ Target(s, op).deleted => Target(s_after, op) = Target(s, op)

\* C15 as stated: apply(Create) fails with RecordAlreadyExists whenever a
\* record with that id is held, active or tombstoned; apply(Update) and
\* apply(Delete) on a tombstone fail with OperationOnDeleted; a tombstone
\* stays deleted with unchanged version and payload.
C15_TombstonesFinalAnyOp ==
    [][(ret'.call = "apply" /\ Held(store, ret'.op))
          => TombstoneFinal(store, store', ret'.op, ret'.result)]_vars

\* C15 amended: the same for every op that passes schema validation; an op
\* that fails it is refused with the validation error, the store unchanged in
\* its records.
C15_TombstonesFinal ==
    [][(ret'.call = "apply" /\ Held(store, ret'.op))
          => IF validate_operation(schema, ret'.op).ok
                THEN TombstoneFinal(store, store', ret'.op, ret'.result)
                ELSE /\ ret'.result = validate_operation(schema, ret'.op)
                     /\ store'.collections = store.collections]_vars

\* C15 witness: an Update of a tombstone was refused with OperationOnDeleted
C15_Witness ==
    /\ ret.call = "apply"
    /\ ret.op.type = "update"
    /\ ~ret.result.ok
    /\ ret.result.error.kind = "OperationOnDeleted"
    /\ Target(store, ret.op).deleted

\* C16: after a successful apply(op) the store's clock counter is at least
\* op.clock.counter; the counter never goes down in a tick or an apply; tick
\* raises it by exactly 1 and returns a copy of the store's clock.
C16_ClockMonotonic ==
    [][/\ (ret'.call = "apply" /\ ret'.result.ok)
            => store'.clock.counter >= ret'.op.clock.counter
       /\ ret'.call \in {"apply", "tick"}
            => store'.clock.counter >= store.clock.counter
       /\ ret'.call = "tick"
            => /\ store'.clock.counter = store.clock.counter + 1
               /\ store'.clock.node_id = store.clock.node_id
               /\ ret'.result = store'.clock]_vars

\* C16 witness: an op of clock counter 1 was applied to a store whose clock
\* was already at 10
C16_Witness ==
    /\ ret.call = "apply"
    /\ ret.result.ok
    /\ ret.op.clock.counter = 1
    /\ store.clock.counter = 10

\* C17: importing the snapshot that export_state has just returned succeeds
\* and leaves a store equal to the exported one: the same records in the same
\* collections, the same clock, the same pending queue in the same order.
C17_SnapshotRoundTrip ==
    [][(/\ ret.call = "export_state"
        /\ ret'.call = "import_state"
        /\ ret'.snapshot = ret.result)
            => /\ ret'.result.ok
               /\ store' = store]_vars

\* C17 witness: the snapshot of a store with a tombstone and a pending op was
\* exported and imported again
C17_Witness ==
    /\ ret.call = "import_state"
    /\ ret.result.ok
    /\ \E order \in IterationOrders(store.collections) :
          ret.snapshot = Store_export_state(store, order)
    /\ \E r \in AllRecords(store.collections) : r.deleted
    /\ store.pending_ops # <<>>

\* the store that applying the ops of a pending queue to a new store gives
RECURSIVE Replay(_, _)
Replay(s, pending) ==
    IF pending = <<>> THEN s
    ELSE Replay(Store_apply(s, Head(pending).operation,
                            Head(pending).applied_at).store,
                Tail(pending))

\* every order the elements of a sequence can be put in
Reorderings(seq) ==
    { [i \in 1..Len(seq) |-> seq[p[i]]] :
        p \in { q \in [1..Len(seq) -> 1..Len(seq)] :
                  \A i, j \in 1..Len(seq) : i # j => q[i] # q[j] } }

\* the store was built from a new store by the creates of its pending queue,
\* at least two of them
BuiltByCreates(s) ==
    /\ Len(s.pending_ops) >= 2
    /\ \A i \in 1..Len(s.pending_ops) : s.pending_ops[i].operation.type = "create"
    /\ s = Replay(Store_new, s.pending_ops)

\* the snapshots of the stores built by the same creates in another order
ReorderedExports(s, After(_)) ==
    UNION { { Store_export_state(After(Replay(Store_new, pending)), order) :
                order \in IterationOrders(Replay(Store_new, pending).collections) }
            : pending \in Reorderings(s.pending_ops) }

Unchanged(s) == s

C19_RejectsFutureFormat ==
    [][(/\ ret'.call = "import_state"
        /\ ret'.snapshot.format_version > SNAPSHOT_FORMAT_VERSION)
            => /\ ~ret'.result.ok
               /\ ret'.result.error.kind = "InvalidSnapshot"
               /\ store' = store]_vars

\* import_state returned an error on this step
ImportFailed == ret'.call = "import_state" /\ ~ret'.result.ok

\* C20 as stated: SchemaVersionMismatch whenever the schema version differs,
\* InvalidSnapshot whenever the node id differs, and the store unchanged on
\* every error.
C20_ImportErrorsAnyOrder ==
    [][/\ (/\ ret'.call = "import_state"
           /\ ret'.snapshot.schema_version # schema.version)
            => /\ ~ret'.result.ok
               /\ ret'.result.error.kind = "SchemaVersionMismatch"
       /\ (/\ ret'.call = "import_state"
           /\ ret'.snapshot.node_id # StoreNodeId)
            => /\ ~ret'.result.ok
               /\ ret'.result.error.kind = "InvalidSnapshot"
       /\ ImportFailed => store' = store]_vars

\* C20: SchemaVersionMismatch whenever the schema version differs; when the node
\* id differs, InvalidSnapshot if the snapshot passes validate and the error
\* of validate if it does not; the store unchanged on every error.
C20_ImportErrors ==
    [][/\ (/\ ret'.call = "import_state"
           /\ ret'.snapshot.schema_version # schema.version)
            => /\ ~ret'.result.ok
               /\ ret'.result.error.kind = "SchemaVersionMismatch"
       /\ (/\ ret'.call = "import_state"
           /\ ret'.snapshot.node_id # StoreNodeId)
            => /\ ~ret'.result.ok
               /\ IF StoreSnapshot_validate(ret'.snapshot, schema).ok
                     THEN ret'.result.error.kind = "InvalidSnapshot"
                     ELSE ret'.result = StoreSnapshot_validate(ret'.snapshot, schema)
       /\ ImportFailed => store' = store]_vars

\* C20 witness: a snapshot of another node, with another clock and no pending
\* ops, was refused by a store that holds pending ops
C20_Witness ==
    /\ ret.call = "import_state"
    /\ ~ret.result.ok
    /\ ret.result.error.kind = "InvalidSnapshot"
    /\ ret.snapshot.node_id # StoreNodeId
    /\ ret.snapshot.clock # store.clock
    /\ store.pending_ops # <<>>

\* C21: in every reachable state every collection of the store is one of the
\* schema, and every record is stored under the collection its collection
\* field names and under the id its id field holds.
C21_StructuralInvariants ==
    \A c \in DOMAIN store.collections :
        /\ c \in DOMAIN schema.collections
        /\ \A id \in DOMAIN store.collections[c] :
              /\ store.collections[c][id].collection = c
              /\ store.collections[c][id].id = id

\* C21 witness: a snapshot that passes validation was imported into a store
\* that had records and pending ops of its own
C21_Witness ==
    /\ ret.call = "import_state"
    /\ ret.result.ok
    /\ StoreSnapshot_validate(ret.snapshot, schema).ok
    /\ StoreEntries(store.collections) # {}


(* ---- C22 ---- *)

\* the op a push in progress is working on is in the operations log, put
\* there before this push or by another push (a push standing at
\* upsert_record has inserted its op itself)
SeenOp(t) ==
    /\ t.pc \in {"exists", "get", "insert"}
    /\ operation_exists(srv.operations, t.operations[t.i].op_id)

\* the next database call of push t on an op that is in the log writes
\* nothing and does not fail
SeenOpWritesNothing(t) ==
    LET step == HandlePushStep(srv.operations, srv.records, t)
    IN  /\ step.operations = srv.operations
        /\ step.records = srv.records
        /\ step.out = <<>>

\* the next database call of push t on an op that is in the log puts the
\* op_id into accepted, or leads to the insert that will
SeenOpAccepted(t) ==
    LET step == HandlePushStep(srv.operations, srv.records, t).task
        op_id == t.operations[t.i].op_id
    IN  /\ step.rejected = t.rejected
        /\ \/ step.accepted = Push(t.accepted, op_id)
           \/ step.accepted = t.accepted /\ step.i = t.i /\ step.pc = "insert"

\* C22: a push handling an op whose op_id is already in the operations log,
\* whether it was there before the push began or a concurrent push of the
\* same op inserted it meanwhile, changes neither the operations log nor
\* the records table and reports the op_id as accepted
C22_PushIdempotent ==
    \A i \in 1..Len(srv.tasks) :
        SeenOp(srv.tasks[i]) =>
            SeenOpWritesNothing(srv.tasks[i]) /\ SeenOpAccepted(srv.tasks[i])

\* C22 witness: two pushes of one op ran concurrently; the slower one
\* stands at insert_operation, hits the unique violation and reports accepted
C22_Witness ==
    \E i \in 1..Len(srv.tasks) :
        LET t == srv.tasks[i]
        IN  /\ SeenOp(t)
            /\ t.pc = "insert"
            /\ ~insert_operation(srv.operations, t.operations[t.i]).ok
            /\ Contains(HandlePushStep(srv.operations, srv.records, t).task.accepted,
                        t.operations[t.i].op_id)


(* ---- C23 ---- *)

\* the since values the claim speaks of: none, the empty string, or a token
\* '{timestamp}_{opId}' as the server issues them
TokenSince == { <<>>, << <<>> >> } \cup
              { << FormatToken(op.timestamp, op.op_id) >> : op \in PushOps }

\* the (timestamp, op_id) a token names
TokenOp(since) ==
    CHOOSE op \in PushOps : since = << FormatToken(op.timestamp, op.op_id) >>

\* (timestamp, op_id) of a is before that of b
PairBefore(a_ts, a_id, b_ts, b_id) ==
    a_ts < b_ts \/ (a_ts = b_ts /\ CharsCmp(Chars(a_id), Chars(b_id)) < 0)

\* the stored operations strictly after a since value
StoredAfter(since) ==
    { i \in 1..Len(srv.operations) :
        \/ since \in { <<>>, << <<>> >> }
        \/ /\ since \notin { <<>>, << <<>> >> }
           /\ PairBefore(TokenOp(since).timestamp, TokenOp(since).op_id,
                         srv.operations[i].timestamp, srv.operations[i].op_id) }

\* the requested limit clamped to [1, 1000], or 100 when absent
PageSize(limit) ==
    IF limit = <<>> THEN 100
    ELSE IF limit[1] < 1 THEN 1
    ELSE IF limit[1] > 1000 THEN 1000
    ELSE limit[1]

WsPushAccepted ==
    /\ Len(srv'.tasks) < Len(srv.tasks)
    /\ srv'.resp.call = "push"
    /\ srv'.resp.conn # <<>>
    /\ srv'.resp.result.ok
    /\ srv'.resp.result.value.accepted # <<>>

\* the pushed operations whose op_id was accepted
AcceptedOps ==
    SelectSeq(srv'.resp.operations,
              LAMBDA op : \E k \in 1..Len(srv'.resp.result.value.accepted) :
                              srv'.resp.result.value.accepted[k] = op.op_id)

\* this step put exactly one message on the channel of connection c: an
\* OpsAvailable with the accepted operations
GotOpsAvailable(c) ==
    /\ c \in DOMAIN mgr'.channels
    /\ Len(mgr'.channels[c].queue) = Len(mgr.channels[c].queue) + 1
    /\ SubSeq(mgr'.channels[c].queue, 1, Len(mgr.channels[c].queue))
            = mgr.channels[c].queue
    /\ LET m == mgr'.channels[c].queue[Len(mgr'.channels[c].queue)]
       IN  m.type = "ops_available" /\ m.operations = AcceptedOps

\* this step put no OpsAvailable on the channel of connection c
GotNoOpsAvailable(c) ==
    \A k \in (Len(mgr.channels[c].queue) + 1)..Len(mgr'.channels[c].queue) :
        mgr'.channels[c].queue[k].type # "ops_available"

\* the broadcast of this step, with `receivers` the connections that are to
\* get the message
BroadcastTo(receivers) ==
    LET pusher == srv'.resp.conn[1]
    IN  /\ \A c \in receivers : GotOpsAvailable(c)
        /\ \A c \in DOMAIN mgr.connections \ receivers :
                mgr'.channels[c].queue = mgr.channels[c].queue
                    \/ (c = pusher /\ GotNoOpsAvailable(c))
        /\ GotNoOpsAvailable(pusher)
        /\ srv'.resp.sent = << Cardinality(receivers) >>

Covered(collection, include_deleted) ==
    { k \in DOMAIN store.collections[collection] :
        include_deleted \/ ~store.collections[collection][k].deleted }

\* C25: get returns the record stored under (collection, id) iff there is
\* one and it is not deleted; get_including_deleted returns it also when it
\* is a tombstone; count() and all() of a query cover the active records
\* only, and every stored record once include_deleted() is set
C25_ReadsRespectTombstones ==
    LET stored(c, id) == c \in DOMAIN store.collections
                            /\ id \in DOMAIN store.collections[c]
    IN  /\ ret.call = "get" =>
              IF stored(ret.collection, ret.id)
                   /\ ~store.collections[ret.collection][ret.id].deleted
                THEN ret.result = << store.collections[ret.collection][ret.id] >>
                ELSE ret.result = <<>>
        /\ ret.call = "get_including_deleted" =>
              IF stored(ret.collection, ret.id)
                THEN ret.result = << store.collections[ret.collection][ret.id] >>
                ELSE ret.result = <<>>
        /\ (ret.call = "query" /\ ret.result # <<>>) =>
              LET keys == Covered(ret.collection, ret.include_deleted)
                  all == ret.result[1].all
              IN  /\ ret.result[1].count = Cardinality(keys)
                  /\ DOMAIN all = { store.collections[ret.collection][k] : k \in keys }
                  /\ \A r \in DOMAIN all :
                        all[r] = Cardinality({ k \in keys :
                                    store.collections[ret.collection][k] = r })

\* C25 witness: get of a tombstone returned nothing
C25_Witness ==
    /\ ret.call = "get"
    /\ ret.collection \in DOMAIN store.collections
    /\ ret.id \in DOMAIN store.collections[ret.collection]
    /\ store.collections[ret.collection][ret.id].deleted
    /\ Store_get_including_deleted(store, ret.collection, ret.id) # <<>>
    /\ ret.result = <<>>


(* ---- C26 ---- *)

\* C26: the comparison of clocks orders by counter first and by node_id
\* second, is antisymmetric, transitive and total, and finds two clocks equal
\* only when both fields are equal; merge sets the counter to the larger of
\* the two counters, keeps node_id, and merging the same clock again
\* changes nothing
C26_ClockOrderAndMerge ==
    /\ ret.call = "cmp" =>
          /\ ret.ab \in {-1, 0, 1}
          /\ ret.ab = 0 - ret.ba
          /\ (ret.ab <= 0 /\ ret.bc <= 0) => ret.ac <= 0
          /\ (ret.ab < 0 /\ ret.bc <= 0) => ret.ac < 0
          /\ ret.ab = 0 <=> (ret.a.counter = ret.b.counter
                               /\ ret.a.node_id = ret.b.node_id)
          /\ ret.a.counter < ret.b.counter => ret.ab = -1
          /\ (ret.a.counter = ret.b.counter
                /\ ret.a.node_id = "local" /\ ret.b.node_id = "remote")
                    => ret.ab = -1
    /\ ret.call = "merge" =>
          /\ ret.merged.counter >= ret.a.counter
          /\ ret.merged.counter >= ret.b.counter
          /\ ret.merged.counter \in { ret.a.counter, ret.b.counter }
          /\ ret.merged.node_id = ret.a.node_id
          /\ ret.twice = ret.merged

\* C26 witness: two clocks with one counter were ordered by node_id
C26_Witness ==
    /\ ret.call = "cmp"
    /\ ret.a.counter = MaxCounter
    /\ ret.b.counter = MaxCounter
    /\ ret.a.node_id = "remote"
    /\ ret.b.node_id = "local"
    /\ ret.ab = 1


(* ---- C27 ---- *)

\* C27: tick on a clock whose counter is the largest there is never returns
\* a clock with a smaller counter: it halts; tick on the counter before the
\* largest returns the largest
C27_OverflowDetected ==
    [][(ret.call = "clocks" /\ ret'.call \in {"tick", "panic"}) =>
          /\ ret'.call = "tick" => ret'.result.counter >= ret.a.counter
          /\ ret.a.counter = MaxCounter => ret'.call = "panic"
          /\ ret.a.counter = MaxCounter - 1 =>
                (ret'.call = "tick" /\ ret'.result.counter = MaxCounter)]_vars

\* C27 witness: tick on the largest counter returned a clock of counter 0
C27_Witness ==
    /\ ret.call = "tick"
    /\ "a" \in DOMAIN ret
    /\ ret.a.counter = MaxCounter
    /\ ret.result.counter = 0


(* ---- C28 ---- *)

\* C28: whenever apply returns an error, be it a schema error,
\* RecordAlreadyExists, RecordNotFound, OperationOnDeleted or VersionMismatch,
\* the clock of the store is the same as before the call
C28_ClockKeptOnError ==
    [][(ret'.call = "apply" /\ ~ret'.result.ok) => store'.clock = store.clock]_vars

\* C28 witness: an apply failed after validation and the clock of the store
\* is the clock of the op
C28_Witness ==
    /\ ret.call = "apply"
    /\ ~ret.result.ok
    /\ ret.result.error.kind \in {"RecordAlreadyExists", "RecordNotFound",
                                   "OperationOnDeleted", "VersionMismatch"}
    /\ store.clock.counter = ret.op.clock.counter
    /\ store.pending_ops = <<>>

(* ---- C29 ---- *)

\* C29: whenever apply returns an error, the records of every collection
\* and the pending queue are exactly as before the call
C29_FailedApplyKeepsData ==
    [][(ret'.call = "apply" /\ ~ret'.result.ok) =>
          /\ store'.collections = store.collections
          /\ store'.pending_ops = store.pending_ops]_vars

\* C29 witness: an update of a record failed on its version; the record is
\* there at the version it had and the queue holds the create only
C29_Witness ==
    /\ ret.call = "apply"
    /\ ~ret.result.ok
    /\ ret.result.error.kind = "VersionMismatch"
    /\ ret.op.type = "update"
    /\ Target(store, ret.op).version # ret.op.base_version
    /\ Len(store.pending_ops) = 1
    /\ store.pending_ops[1].operation.type = "create"

(* ---- C30 ---- *)

\* C30: after Store::reconcile the clock counter of the store is at least
\* the clock counter of every remote op of the batch
C30_ReconcileAdvancesClock ==
    [][ret'.call = "reconcile" =>
          \A i \in 1..Len(ret'.remote_ops) :
              store'.clock.counter >= ret'.remote_ops[i].clock.counter]_vars

\* C30 witness: a reconcile took in a remote op whose clock counter is above
\* that of the store
C30_Witness ==
    /\ ret.call = "reconcile"
    /\ ret.remote_ops # <<>>
    /\ Contains(ret.result.applied_remote, ret.remote_ops[1].op_id)
    /\ store.clock.counter < ret.remote_ops[1].clock.counter


(* ---- C31 ---- *)

\* the states of the reconciler during the walk: the i-th is the state
\* before the i-th op of the sorted list, the last one the state at the end
RECURSIVE WalkFrom(_, _)
WalkFrom(st, ops) ==
    IF ops = <<>> THEN << st >>
    ELSE << st >> \o WalkFrom(apply_tracked_op(st, rc_strategy, Head(ops)), Tail(ops))

WalkStates ==
    WalkFrom([records |-> rc_records, result |-> ReconcileResult_new], RecWalk)

\* the i-th op of the walk is an update or delete of a key the working state
\* does not hold
SkippedStep(i) ==
    /\ RecWalk[i].operation.type \in {"update", "delete"}
    /\ KeyOf(RecWalk[i].operation) \notin DOMAIN WalkStates[i].records

\* the accepted list of the side an op came from
AcceptedOfSide(result, source) ==
    IF source = "Local" THEN result.accepted_local ELSE result.applied_remote

\* C31: in reconcile an update or delete whose key is absent from the
\* working state is skipped: no record is created, no record changes, no
\* conflict is recorded, and its op_id is in the accepted list of its side
\* (accepted_local or applied_remote), then and in the final result
C31_AbsentKeySkipped ==
    RecDone =>
        \A i \in 1..Len(RecWalk) :
            SkippedStep(i) =>
                /\ WalkStates[i + 1].records = WalkStates[i].records
                /\ WalkStates[i + 1].result.conflicts = WalkStates[i].result.conflicts
                /\ WalkStates[i + 1].result.rejected_local
                        = WalkStates[i].result.rejected_local
                /\ WalkStates[i + 1].result.rejected_remote
                        = WalkStates[i].result.rejected_remote
                /\ Contains(AcceptedOfSide(WalkStates[i + 1].result, RecWalk[i].source),
                            RecWalk[i].operation.op_id)
                /\ Contains(AcceptedOfSide(rc_result, RecWalk[i].source),
                            RecWalk[i].operation.op_id)

\* C31 witness: a reconcile on a reconciler without records walked a remote
\* update of u1 that no create preceded; u1 is not in the final records
C31_Witness ==
    /\ RecDone
    /\ rc_records = EmptyMap
    /\ \E i \in 1..Len(RecWalk) :
          /\ SkippedStep(i)
          /\ RecWalk[i].source = "Remote"
          /\ RecWalk[i].operation.type = "update"
          /\ Contains(rc_result.applied_remote, RecWalk[i].operation.op_id)
          /\ KeyOf(RecWalk[i].operation) \notin DOMAIN rc_final

(* ---- C32 ---- *)

\* the i-th op of the walk meets a record whose last op came from the other
\* side
MeetsOtherSide(i) ==
    /\ KeyOf(RecWalk[i].operation) \in DOMAIN WalkStates[i].records
    /\ WalkStates[i].records[KeyOf(RecWalk[i].operation)].last_source
            # RecWalk[i].source

\* C32: walking the sorted ops, exactly one Conflict is recorded for an op
\* iff a record of its key is in the working state and the source of that
\* record's last op differs from the op's source; otherwise no conflict is
\* recorded and the op is applied whatever the clocks are: it is in the
\* accepted list of its side and, if the record is held or the op is a
\* create, it is the record's last op
C32_ConflictBySourceOnly ==
    RecDone =>
        \A i \in 1..Len(RecWalk) :
            LET before == WalkStates[i]
                after == WalkStates[i + 1]
                op == RecWalk[i].operation
                key == KeyOf(op)
            IN  IF MeetsOtherSide(i)
                    THEN /\ Len(after.result.conflicts)
                                = Len(before.result.conflicts) + 1
                         /\ SubSeq(after.result.conflicts, 1,
                                   Len(before.result.conflicts))
                                = before.result.conflicts
                         /\ LET c == after.result.conflicts[Len(after.result.conflicts)]
                            IN  op \in { c.local_op, c.remote_op }
                    ELSE /\ after.result.conflicts = before.result.conflicts
                         /\ Contains(AcceptedOfSide(after.result, RecWalk[i].source),
                                     op.op_id)
                         /\ (key \in DOMAIN before.records \/ op.type = "create") =>
                                /\ key \in DOMAIN after.records
                                /\ after.records[key].last_op = op
                                /\ after.records[key].last_source = RecWalk[i].source

\* C32 witness: an op of a smaller clock was applied over a record whose
\* last op came from the same side with a larger clock, without a conflict
C32_Witness ==
    /\ RecDone
    /\ \E i \in 1..Len(RecWalk) :
          LET key == KeyOf(RecWalk[i].operation)
          IN  /\ key \in DOMAIN WalkStates[i].records
              /\ ~MeetsOtherSide(i)
              /\ LogicalClock_cmp(RecWalk[i].operation.clock,
                                  WalkStates[i].records[key].last_op.clock) < 0
              /\ WalkStates[i + 1].records[key].last_op = RecWalk[i].operation
              /\ WalkStates[i + 1].result.conflicts = <<>>


(* ---- C33 ---- *)

\* C33: under ClockWins, every record the store held before a reconcile
\* has afterwards a metadata.clock that is not smaller than before: no
\* smaller op has replaced the state a larger op produced
C33_LastWriterWins ==
    [][(ret'.call = "reconcile" /\ ret'.strategy = "ClockWins") =>
          \A e \in StoreEntries(store.collections) :
              e \in StoreEntries(store'.collections) =>
                  LogicalClock_cmp(store'.collections[e[1]][e[2]].metadata.clock,
                                   store.collections[e[1]][e[2]].metadata.clock)
                      >= 0]_vars

\* C33 witness: a store holds u1 at clock counter 10 while the create of u1,
\* of clock counter 1, is still pending; a reconcile of no remote ops under
\* ClockWins reports no conflict and leaves u1 at clock counter 1
C33_Witness ==
    /\ Users \in DOMAIN store.collections
    /\ "u1" \in DOMAIN store.collections[Users]
    /\ store.collections[Users]["u1"].metadata.clock.counter = 10
    /\ \E i \in 1..Len(store.pending_ops) :
          /\ store.pending_ops[i].operation.type = "create"
          /\ store.pending_ops[i].operation.clock.counter = 1
    /\ LET out == Store_reconcile(store, <<>>, "ClockWins")
       IN  /\ out.result.conflicts = <<>>
           /\ out.store.collections[Users]["u1"].metadata.clock.counter = 1


(* ---- C34 ---- *)

\* payload, version and deleted flag of every record of a store
DataOf(s) ==
    [e \in StoreEntries(s.collections) |->
        [payload |-> s.collections[e[1]][e[2]].payload,
         version |-> s.collections[e[1]][e[2]].version,
         deleted |-> s.collections[e[1]][e[2]].deleted]]

\* the store after the batch of the last reconcile is delivered once more
Redelivered == Store_reconcile(store, ret.remote_ops, ret.strategy).store

\* C34: after reconcile(R), calling reconcile(R) again with the same
\* strategy leaves every record with the same payload, version and deleted
\* flag
C34_ReconcileIdempotent ==
    ret.call = "reconcile" => DataOf(Redelivered) = DataOf(store)

\* C34 witness: a reconcile applied a remote update of u1; delivering the
\* batch again raises the version of u1 once more
C34_Witness ==
    /\ ret.call = "reconcile"
    /\ ret.remote_ops # <<>>
    /\ ret.remote_ops[1].type = "update"
    /\ Contains(ret.result.applied_remote, ret.remote_ops[1].op_id)
    /\ ret.result.conflicts = <<>>
    /\ <<Users, "u1">> \in StoreEntries(store.collections)
    /\ DataOf(Redelivered)[<<Users, "u1">>].version
            = DataOf(store)[<<Users, "u1">>].version + 1


(* ---- C35 ---- *)

\* op ids named by a result on the local side: accepted_local,
\* rejected_local and the local_op of every conflict
LocalNamed(result) ==
    Elems(result.accepted_local) \cup Elems(result.rejected_local)
        \cup {result.conflicts[i].local_op.op_id :
                  i \in 1..Len(result.conflicts)}

\* op ids named by a result on the remote side: applied_remote,
\* rejected_remote and the remote_op of every conflict
RemoteNamed(result) ==
    Elems(result.applied_remote) \cup Elems(result.rejected_remote)
        \cup {result.conflicts[i].remote_op.op_id :
                  i \in 1..Len(result.conflicts)}

\* ids of the synthetic seed ops of a store's records
SyntheticIds(s) == {ExistingOpId(e[2]) : e \in StoreEntries(s.collections)}

\* C35: the result of Store.reconcile names only ops of its input: the
\* local side names ops of the pending queue, the remote side ops of the
\* remote batch, and no synthetic __existing__ id appears
C35_ResultNamesInputOps ==
    [][ret'.call = "reconcile" =>
          /\ LocalNamed(ret'.result)
                 \subseteq IdsOf(PendingOperations(store.pending_ops))
          /\ RemoteNamed(ret'.result) \subseteq IdsOf(ret'.remote_ops)
          /\ (LocalNamed(ret'.result) \cup RemoteNamed(ret'.result))
                 \cap SyntheticIds(store) = {}]_vars

\* C35 witness: a store holding u1 with an empty pending queue, on which
\* reconciling a remote update of u1 reports the synthetic seed op of u1 as
\* the local op of a conflict
C35_Witness ==
    /\ <<Users, "u1">> \in StoreEntries(store.collections)
    /\ store.pending_ops = <<>>
    /\ \E R \in RemoteBatches :
          /\ R # <<>>
          /\ LET out == Store_reconcile(store, R, "ClockWins")
             IN  /\ out.result.conflicts # <<>>
                 /\ out.result.conflicts[1].local_op.op_id
                        = ExistingOpId("u1")


(* ---- C36 ---- *)

\* the record passes validate_payload for the schema of its collection
PayloadValid(name, record) ==
    /\ name \in DOMAIN schema.collections
    /\ validate_payload(schema.collections[name], record.payload).ok

\* C36: schema validity is an invariant of the store: after any sequence of
\* apply, reconcile and import_state every active record's payload passes
\* validate_payload for the schema of its collection
C36_SchemaValidity ==
    \A e \in StoreEntries(store.collections) :
        ~store.collections[e[1]][e[2]].deleted =>
            PayloadValid(e[1], store.collections[e[1]][e[2]])

\* C36 witness: a reconcile applied a remote create whose payload lacks a
\* valid required field, and the record is now active in the store
C36_Witness ==
    /\ ret.call = "reconcile"
    /\ ret.remote_ops # <<>>
    /\ ret.remote_ops[1].type = "create"
    /\ ~validate_operation(schema, ret.remote_ops[1]).ok
    /\ Contains(ret.result.applied_remote, ret.remote_ops[1].op_id)
    /\ <<Users, ret.remote_ops[1].id>> \in StoreEntries(store.collections)
    /\ ~store.collections[Users][ret.remote_ops[1].id].deleted
    /\ store.collections[Users][ret.remote_ops[1].id].payload
           = ret.remote_ops[1].payload


(* ---- C37 ---- *)

\* the pushed ops that the operations log holds
Logged == {op \in PushOps : operation_exists(srv.operations, op.op_id)}

\* the op that ClockWins prefers among a set of ops
ClockWinsWinner(ops) ==
    CHOOSE w \in ops : \A o \in ops : Operation_cmp(w, o) >= 0

\* every push has returned and the log holds two different creates of the
\* same record
TwoCreatesPushed ==
    /\ srv.tasks = <<>>
    /\ Cardinality(Logged) = 2
    /\ \A op \in Logged : op.type = "create"
    /\ Cardinality({KeyOf(op) : op \in Logged}) = 1

\* C37: when pushes of two different ops on the same record have all
\* returned, in whatever order their database steps interleaved, the
\* records table holds the state of the op that wins under ClockWins
C37_ConcurrentPushConverges ==
    TwoCreatesPushed =>
        LET w == ClockWinsWinner(Logged)
            key == <<w.collection, w.id>>
        IN  /\ key \in DOMAIN srv.records
            /\ srv.records[key].payload = w.payload
            /\ srv.records[key].clock_counter = AsI64(w.clock.counter)
            /\ srv.records[key].clock_node_id = w.clock.node_id

\* C37 witness: two pushes, each of one create of users/u1, are in flight at
\* once and both have read the records table before either wrote to it
C37_Witness ==
    /\ Len(srv.tasks) = 2
    /\ srv.tasks[1].operations # srv.tasks[2].operations
    /\ \A i \in 1..2 :
          /\ srv.tasks[i].pc = "insert"
          /\ srv.tasks[i].existing = <<>>
          /\ srv.tasks[i].operations[1].type = "create"
          /\ srv.tasks[i].operations[1].id = "u1"
    /\ srv.records = EmptyMap


(* ---- C38 ---- *)

\* the step just taken made the handle_push of task i return an error
PushFailedAt(i) ==
    /\ i \in 1..Len(srv.tasks)
    /\ HandlePushStep(srv.operations, srv.records, srv.tasks[i]).out
           = << srv'.resp.result >>
    /\ srv.tasks[i].operations = srv'.resp.operations
    /\ srv'.tasks = RemoveAt(srv.tasks, i)

\* the op a task is working on
CurrentOp(t) == t.operations[t.i]

\* C38: when handle_push returns an error, the op it failed on is not in the
\* operations log afterwards, so that no pull returns it and the idempotency
\* check of a retry does not find it
C38_FailedPushStoresNothing ==
    [][(srv'.resp.call = "push" /\ ~srv'.resp.result.ok) =>
          \A i \in 1..Len(srv.tasks) :
              PushFailedAt(i) =>
                  ~operation_exists(srv'.operations,
                                    CurrentOp(srv.tasks[i]).op_id)]_vars

\* C38 witness: the push of an update of a record the server does not hold
\* has returned BadRequest, the update is in the operations log, and the
\* first step of a retry would find it there
C38_Witness ==
    /\ srv.resp.call = "push"
    /\ ~srv.resp.result.ok
    /\ srv.resp.result.error.kind = "BadRequest"
    /\ srv.resp.operations[1].type = "update"
    /\ srv.records = EmptyMap
    /\ operation_exists(srv.operations, srv.resp.operations[1].op_id)
    /\ Contains(HandlePushStep(srv.operations, srv.records,
                               Task_new(<<>>, srv.resp.operations)).task.accepted,
                srv.resp.operations[1].op_id)


(* ---- C39 ---- *)

\* C39: a client that keeps pulling with the syncToken of its previous
\* response eventually receives every op the operations log holds
C39_PullCompleteness ==
    \A op \in PushOps :
        operation_exists(srv.operations, op.op_id)
            ~> (op.op_id \in client.received)

\* C39 witness: the client has pulled an op of timestamp 2000 and holds its
\* token; an op of timestamp 1000 was stored afterwards, the client has not
\* received it and its next pull returns nothing
C39_Witness ==
    /\ client.token = << FormatToken(2000, "B") >>
    /\ client.received = {"B"}
    /\ srv.tasks = <<>>
    /\ operation_exists(srv.operations, "A")
    /\ \A limit \in ClientLimits :
          handle_pull(srv.operations, client.token, limit).operations = <<>>


(* ---- C40 ---- *)

\* no register or unregister call is in progress
AllReturned == \A c \in DOMAIN calls : calls[c].pc \in {"open", "closed"}

\* the ids of the connections in connections whose node_id is n
LiveOf(n) == {c \in DOMAIN mgr.connections : mgr.connections[c].node_id = n}

\* C40: once every register and unregister call has returned, by_node_id
\* maps each node_id to exactly the ids of the connections in connections
\* with that node_id and has no entry for a node without connections;
\* node_count is the number of distinct node_ids among them and
\* connection_count the number of connections registered and not yet
\* unregistered
C40_IndexConsistent ==
    AllReturned =>
        /\ \A n \in NodeIds :
              IF LiveOf(n) = {}
                  THEN n \notin DOMAIN mgr.by_node_id
                  ELSE /\ n \in DOMAIN mgr.by_node_id
                       /\ Elems(mgr.by_node_id[n]) = LiveOf(n)
                       /\ Len(mgr.by_node_id[n]) = Cardinality(LiveOf(n))
        /\ ConnectionManager_node_count(mgr)
              = Cardinality({mgr.connections[c].node_id :
                                c \in DOMAIN mgr.connections})
        /\ ConnectionManager_connection_count(mgr)
              = Cardinality(CallsAt("open"))

\* C40 witness: every call has returned, an unregister that ran its cleanup
\* is among them, and a connection registered meanwhile for the same node is
\* in connections but the index has no entry for its node
C40_Witness ==
    /\ AllReturned
    /\ \E c \in CallsAt("open"), d \in CallsAt("closed") :
          /\ calls[c].node_id = calls[d].node_id
          /\ c \in DOMAIN mgr.connections
          /\ calls[c].node_id \notin DOMAIN mgr.by_node_id

============================================================================
